---- MODULE Spec2Model ----
(***************************************************************************)
(* Model of the spare-parts management system's schema version migrator    *)
(* (src/db_migration.py), its backup configuration / scheduler and its     *)
(* backup artifacts (src/app.py).                                          *)
(***************************************************************************)
EXTENDS Integers, Sequences, FiniteSets, TLC

VARIABLES
    \* ---- the database file that db_migration.py looks at
    dbExists,      \* os.path.exists(get_database_path())
    db,            \* [tables: set of table names, versionLog: rows of db_version]
    \* ---- bookkeeping of the runs of check_and_migrate (observation only)
    runs,          \* number of runs so far
    lastRun,       \* the latest run: start state, inputs, result
    prevRun,       \* the run before it
    \* ---- the app.py process
    platform,        \* "posix" or "nt": the os.path flavour of the build
    HAS_MIGRATION,   \* whether "from db_migration import ..." succeeded
    phase,           \* "boot", "serving" or "exited"
    migrationResult, \* what the start-up call of check_and_migrate returned
    configFile,      \* backup_config.json: [exists, data]
    backup_scheduler,\* the module-level handle: 0 = None, else a scheduler id
    schedulers,      \* the BackgroundScheduler objects referenced or running
    now,             \* the clock, in days
    fs,              \* the files under the application directory
    lastOp,          \* the latest handler or job that ran, with what it did
    lastUpdate,      \* the latest update_backup_config call
    threads,         \* the request threads inside update_backup_config
    \* ---- the tables of spare_parts.db that the request handlers work on
    spare_parts,         \* rows of SparePart
    maintenance_records, \* rows of MaintenanceRecord
    dependents,          \* rows of InboundRecord, OutboundRecord, FaultRecord
                         \* and Attachment: [kind, id, spare_part_id]
    lastCall             \* the latest request on these tables and its answer

migVars == <<dbExists, db, runs, lastRun, prevRun>>
appVars == <<platform, HAS_MIGRATION, phase, migrationResult, configFile,
             backup_scheduler, schedulers, now, fs, lastOp, lastUpdate, threads>>
storeVars == <<spare_parts, maintenance_records, dependents, lastCall>>
vars == <<dbExists, db, runs, lastRun, prevRun, platform, HAS_MIGRATION, phase,
          migrationResult, configFile, backup_scheduler, schedulers, now, fs,
          lastOp, lastUpdate, threads, spare_parts, maintenance_records,
          dependents, lastCall>>

(***************************************************************************)
(* Bounds                                                                  *)
(***************************************************************************)
MaxRuns == 3            \* runs of check_and_migrate explored
MaxNow == 2             \* days the clock is advanced
MaxPartId == 2          \* largest id given to a spare part
MaxRecordId == 2        \* largest id given to a maintenance record
MaxDependents == 1      \* rows of the other record tables, and their largest id
MaxSchedulers == 2      \* scheduler objects alive when a request is accepted

(***************************************************************************)
(* src/db_migration.py                                                     *)
(***************************************************************************)
CURRENT_DB_VERSION == 1

SchemaTables == {"attachments", "historical_documents"}

\* Statement of a migration run that is made to raise.
Faults == {"none", "create_version_table", "create_attachments",
           "create_historical_documents", "insert_version"}

\* Point at which the process is killed during a run (after the named
\* statement has taken effect), or "none".
Kills == {"none", "after_version_table", "after_attachments",
          "after_historical_documents"}

\* create_db_version_table: CREATE TABLE IF NOT EXISTS db_version.
create_db_version_table(d) ==
    [d EXCEPT !.tables = @ \cup {"db_version"}]

\* set_db_version: INSERT one row and commit.
set_db_version(d, version) ==
    [d EXCEPT !.versionLog = Append(@, version)]

\* A migration step that issues CREATE TABLE without looking first.
NeedsCreate_unchecked(d, t) == TRUE

\* "SELECT name FROM sqlite_master ..." followed by "if not cursor.fetchone()":
\* whether the CREATE TABLE statement is issued for table t.
NeedsCreate(d, t) == t \notin d.tables

\* CREATE TABLE t (no IF NOT EXISTS): raises when t exists or when the
\* statement is made to fail; otherwise the table exists afterwards (DDL is
\* not held back in a transaction by the sqlite3 module).
CreateTable(d, t, fails) ==
    IF fails \/ t \in d.tables
    THEN [db |-> d, raised |-> TRUE]
    ELSE [db |-> [d EXCEPT !.tables = @ \cup {t}], raised |-> FALSE]

\* The try block of migrate_to_v1 (lines 120-160): the two check-then-create
\* pairs.  outcome "raised" = an exception left the block at that point,
\* "killed" = the process died, "done" = the block ran to its end.
MigrateV1TryBlock(d, fault, kill) ==
    LET a == IF NeedsCreate(d, "attachments")
             THEN CreateTable(d, "attachments", fault = "create_attachments")
             ELSE [db |-> d, raised |-> FALSE]
    IN  IF a.raised THEN [db |-> a.db, outcome |-> "raised"]
        ELSE IF kill = "after_attachments" THEN [db |-> a.db, outcome |-> "killed"]
        ELSE
          LET h == IF NeedsCreate(a.db, "historical_documents")
                   THEN CreateTable(a.db, "historical_documents",
                                    fault = "create_historical_documents")
                   ELSE [db |-> a.db, raised |-> FALSE]
          IN  IF h.raised THEN [db |-> h.db, outcome |-> "raised"]
              ELSE IF kill = "after_historical_documents"
                   THEN [db |-> h.db, outcome |-> "killed"]
              ELSE [db |-> h.db, outcome |-> "done"]

\* migrate_to_v1: the try block, whose exceptions are caught and printed as a
\* warning (lines 161-162), then set_db_version(conn, 1, ...) outside of it.
\* stepRaised: a statement of the step raised (caught or not).
migrate_to_v1(d, fault, kill) ==
    LET t == MigrateV1TryBlock(d, fault, kill)
    IN  IF t.outcome = "killed"
        THEN [db |-> t.db, outcome |-> "killed", stepRaised |-> FALSE]
        ELSE IF fault = "insert_version"
             THEN [db |-> t.db, outcome |-> "raised", stepRaised |-> TRUE]
        ELSE [db |-> set_db_version(t.db, 1), outcome |-> "done",
              stepRaised |-> (t.outcome = "raised")]

\* A get_db_version whose SELECT always fails (OperationalError branch).
get_db_version_always_zero(d) == 0

\* A get_db_version that reads the oldest row (ORDER BY id ASC).
get_db_version_oldest(d) ==
    IF "db_version" \notin d.tables THEN 0
    ELSE IF d.versionLog = <<>> THEN 0
    ELSE d.versionLog[1]

\* get_db_version: version of the newest row (ORDER BY id DESC LIMIT 1),
\* 0 when there is no row or no table.
get_db_version(d) ==
    IF "db_version" \notin d.tables THEN 0
    ELSE IF d.versionLog = <<>> THEN 0
    ELSE d.versionLog[Len(d.versionLog)]

\* check_and_migrate on an existing database file (lines 72-111).
\* result: "success" = returned True, "failure" = returned False,
\* "killed" = the process died during the run.
MigrateExisting(d, fault, kill) ==
    IF fault = "create_version_table"
    THEN [db |-> d, result |-> "failure", stepRaised |-> FALSE]
    ELSE
      LET d1 == create_db_version_table(d)
          current_version == get_db_version(d1)
          quiet(res) == [db |-> d1, result |-> res, stepRaised |-> FALSE]
      IN  IF kill = "after_version_table" THEN quiet("killed")
          ELSE IF current_version = CURRENT_DB_VERSION THEN quiet("success")
          ELSE IF current_version < CURRENT_DB_VERSION
               THEN IF current_version < 1
                    THEN LET m == migrate_to_v1(d1, fault, kill)
                         IN  [db |-> m.db,
                              result |-> CASE m.outcome = "done"   -> "success"
                                           [] m.outcome = "raised" -> "failure"
                                           [] OTHER                -> "killed",
                              stepRaised |-> m.stepRaised]
                    ELSE quiet("success")
          ELSE quiet("success")   \* newer schema: warning only

\* check_and_migrate (lines 61-111): no database file, nothing to do.
check_and_migrate(exists, d, fault, kill) ==
    IF ~exists THEN [db |-> d, result |-> "success", stepRaised |-> FALSE]
    ELSE MigrateExisting(d, fault, kill)

(***************************************************************************)
(* Python string and number conversions used by src/app.py                 *)
(***************************************************************************)
CharAt(s, i) == SubSeq(s, i, i)

DigitChars == {"0", "1", "2", "3", "4", "5", "6", "7", "8", "9"}

DigitValue(c) ==
    CASE c = "0" -> 0 [] c = "1" -> 1 [] c = "2" -> 2 [] c = "3" -> 3
      [] c = "4" -> 4 [] c = "5" -> 5 [] c = "6" -> 6 [] c = "7" -> 7
      [] c = "8" -> 8 [] OTHER -> 9

IsDigits(s) == Len(s) > 0 /\ \A i \in 1..Len(s) : CharAt(s, i) \in DigitChars

RECURSIVE DecimalValue(_)
DecimalValue(s) ==
    IF Len(s) = 0 THEN 0
    ELSE 10 * DecimalValue(SubSeq(s, 1, Len(s) - 1)) + DigitValue(CharAt(s, Len(s)))

\* int(text) for the texts the model feeds it: an optional sign and decimal
\* digits give a number, anything else raises ValueError.
PyIntOfString(s) ==
    LET signed == Len(s) > 0 /\ CharAt(s, 1) \in {"-", "+"}
        body   == IF signed THEN SubSeq(s, 2, Len(s)) ELSE s
    IN  IF IsDigits(body)
        THEN [ok |-> TRUE,
              value |-> IF signed /\ CharAt(s, 1) = "-"
                        THEN 0 - DecimalValue(body) ELSE DecimalValue(body)]
        ELSE [ok |-> FALSE, value |-> 0]

\* int(v) of a JSON value: a number is kept, a string is parsed.
PyInt(v) ==
    IF v.type = "number" THEN [ok |-> TRUE, value |-> v.n]
    ELSE PyIntOfString(v.s)

\* s.split(sep) for a one-character separator.
RECURSIVE SplitFrom(_, _, _, _)
SplitFrom(s, sep, start, i) ==
    IF i > Len(s) THEN <<SubSeq(s, start, Len(s))>>
    ELSE IF CharAt(s, i) = sep
         THEN <<SubSeq(s, start, i - 1)>> \o SplitFrom(s, sep, i + 1, i + 1)
         ELSE SplitFrom(s, sep, start, i + 1)

Split(s, sep) == SplitFrom(s, sep, 1, 1)

\* str.startswith
StartsWith(s, prefix) ==
    Len(s) >= Len(prefix) /\ SubSeq(s, 1, Len(prefix)) = prefix

(***************************************************************************)
(* Backup configuration (src/app.py, load_backup_config and friends)       *)
(***************************************************************************)
DefaultKeepDays == 30

\* default_config of load_backup_config
default_config ==
    [enabled |-> TRUE, auto_backup_enabled |-> TRUE, backup_time |-> "02:00",
     keep_days |-> DefaultKeepDays, backup_type |-> "both"]

ConfigKeys == DOMAIN default_config

\* load_backup_config: {**default_config, **config} of the file's JSON
\* object, the defaults alone when there is no file.
load_backup_config(file) ==
    IF ~file.exists THEN default_config
    ELSE [k \in ConfigKeys |->
            IF k \in DOMAIN file.data THEN file.data[k] ELSE default_config[k]]

\* save_backup_config: the file is rewritten with the whole dictionary.
save_backup_config(config) == [exists |-> TRUE, data |-> config]

(***************************************************************************)
(* The backup scheduler (src/app.py, lines 606-639)                        *)
(*                                                                         *)
(* schedulers: the BackgroundScheduler objects that are still referenced   *)
(* or running, each [id, state, jobs]; backup_scheduler: the module-level  *)
(* handle, 0 for None, else the id of a scheduler.                         *)
(***************************************************************************)
\* CronTrigger(hour=h, minute=m) accepts only values of the field's range.
CronFieldsValid(h, m) == h \in 0..23 /\ m \in 0..59

SchedulerById(scheds, id) == CHOOSE x \in scheds : x.id = id

FreshId(scheds) ==
    CHOOSE i \in 1..(Cardinality(scheds) + 1) : \A x \in scheds : x.id # i

\* A shutdown_backup_scheduler that leaves the scheduler running.
shutdown_backup_scheduler_noop(handle, scheds) ==
    [schedulers |-> scheds, raised |-> FALSE]

\* BackgroundScheduler.shutdown() of a scheduler that is not running raises
\* SchedulerNotRunningError; of a running one it stops it.
\* shutdown_backup_scheduler (lines 634-639): only "if backup_scheduler:".
shutdown_backup_scheduler(handle, scheds) ==
    IF handle = 0 THEN [schedulers |-> scheds, raised |-> FALSE]
    ELSE LET cur == SchedulerById(scheds, handle)
         IN  IF cur.state # "running"
             THEN [schedulers |-> scheds, raised |-> TRUE]
             ELSE [schedulers |-> (scheds \ {cur}) \cup
                                  {[cur EXCEPT !.state = "stopped"]},
                   raised |-> FALSE]

\* hour, minute = map(int, backup_time.split(':')) and the range check of
\* CronTrigger(hour=hour, minute=minute): parsed = the first line went
\* through, valid = the trigger was built as well.
ParseBackupTime(backup_time) ==
    LET fields == Split(backup_time, ":")
        hour   == PyIntOfString(fields[1])
        minute == PyIntOfString(fields[2])
    IN  IF Len(fields) # 2 \/ ~hour.ok \/ ~minute.ok
        THEN [parsed |-> FALSE, valid |-> FALSE, hour |-> 0, minute |-> 0]
        ELSE [parsed |-> TRUE, valid |-> CronFieldsValid(hour.value, minute.value),
              hour |-> hour.value, minute |-> minute.value]

\* add_job(perform_full_backup, trigger=CronTrigger(hour, minute), id='auto_backup')
JobAt(hour, minute) == [id |-> "auto_backup", hour |-> hour, minute |-> minute]

\* The body of init_backup_scheduler for a loaded config (lines 615-632).
StartScheduler(config, handle, scheds) ==
    LET time == ParseBackupTime(config.backup_time)
        id   == FreshId(scheds)
    IN  IF ~config.auto_backup_enabled
        THEN [handle |-> handle, schedulers |-> scheds, raised |-> FALSE]
        ELSE IF ~time.parsed
        THEN [handle |-> handle, schedulers |-> scheds, raised |-> TRUE]
        \* backup_scheduler = BackgroundScheduler(); CronTrigger(...) raises
        ELSE IF ~time.valid
        THEN [handle |-> id,
              schedulers |-> scheds \cup {[id |-> id, state |-> "stopped", jobs |-> {}]},
              raised |-> TRUE]
        \* add_job(..., id='auto_backup', replace_existing=True); start()
        ELSE [handle |-> id,
              schedulers |-> scheds \cup
                  {[id |-> id, state |-> "running",
                    jobs |-> {JobAt(time.hour, time.minute)}]},
              raised |-> FALSE]

\* An init_backup_scheduler that schedules the default time whatever the
\* file says.
init_backup_scheduler_default_time(file, handle, scheds) ==
    StartScheduler([load_backup_config(file) EXCEPT !.backup_time = "02:00"],
                   handle, scheds)

\* init_backup_scheduler (lines 609-632).
init_backup_scheduler(file, handle, scheds) ==
    StartScheduler(load_backup_config(file), handle, scheds)

\* Objects nothing refers to any more: stopped and not the module-level handle.
Collect(handle, scheds) ==
    {x \in scheds : x.state = "running" \/ x.id = handle}

\* The request body of PUT /api/backup/config: a JSON object holding any of
\* the four keys.
RequestTimes == {"03:30", "25:00", "ab:cd"}
RequestKeepDays == {[type |-> "number", n |-> 7], [type |-> "string", s |-> "x"]}
RequestTypes == {"excel"}

\* update_backup_config (lines 2369-2401) as a function of the state it
\* reads: the new file, handle and schedulers, and the success flag of the
\* response.
update_backup_config(data, file, handle, scheds) ==
    LET config == load_backup_config(file)
        keep   == IF "keep_days" \in DOMAIN data THEN PyInt(data["keep_days"])
                  ELSE [ok |-> TRUE, value |-> config.keep_days]
        merged == [k \in ConfigKeys |->
                     IF k = "keep_days" THEN keep.value
                     ELSE IF k \in DOMAIN data THEN data[k] ELSE config[k]]
        saved  == save_backup_config(merged)
        down   == shutdown_backup_scheduler(handle, scheds)
        up     == init_backup_scheduler(saved, handle, down.schedulers)
    IN  IF ~keep.ok       \* int(data['keep_days']) raised: nothing was written
        THEN [file |-> file, handle |-> handle, schedulers |-> scheds,
              success |-> FALSE]
        ELSE IF down.raised
        THEN [file |-> saved, handle |-> handle, schedulers |-> down.schedulers,
              success |-> FALSE]
        ELSE [file |-> saved, handle |-> up.handle,
              schedulers |-> Collect(up.handle, up.schedulers),
              success |-> ~up.raised]

(***************************************************************************)
(* Files and backup artifacts (src/app.py)                                 *)
(*                                                                         *)
(* A file is [path, mtime, created]: path is the sequence of components    *)
(* below the application directory, mtime what os.path.getmtime reports,   *)
(* created the day the file was written (not visible to the program).      *)
(***************************************************************************)
BackupDir == <<"backups">>                 \* get_backup_path()
DatabasePath == <<"data", "spare_parts.db">>  \* get_database_path() of app.py

DB_PREFIX == "database_backup_"
EXCEL_PREFIX == "excel_backup_"

\* filename.startswith('database_backup_') or filename.startswith('excel_backup_')
HasBackupPrefix(filename) ==
    StartsWith(filename, DB_PREFIX) \/ StartsWith(filename, EXCEL_PREFIX)

Exists(files, path) == \E f \in files : f.path = path
FileAt(files, path) == CHOOSE f \in files : f.path = path
Remove(files, path) == {f \in files : f.path # path}
WriteFile(files, path, mtime, created) ==
    Remove(files, path) \cup {[path |-> path, mtime |-> mtime, created |-> created]}

\* os.listdir(backup_dir): the names of the directory's entries.
ListDir(files, dir) ==
    {f.path[Len(dir) + 1] : f \in {g \in files : /\ Len(g.path) = Len(dir) + 1
                                                 /\ SubSeq(g.path, 1, Len(dir)) = dir}}

\* Lexical normalisation of path components ("." and ".." folded away).
RECURSIVE Normalise(_, _)
Normalise(base, comps) ==
    IF comps = <<>> THEN base
    ELSE LET c == Head(comps) IN
         IF c = "" \/ c = "." THEN Normalise(base, Tail(comps))
         ELSE IF c = ".."
              THEN Normalise(IF base = <<>> THEN <<>>
                             ELSE SubSeq(base, 1, Len(base) - 1), Tail(comps))
         ELSE Normalise(Append(base, c), Tail(comps))

\* The file that os.path.join(dir, filename) names when it is handed to
\* os.path.exists / os.remove.  On nt "\" separates components and the
\* system folds ".." lexically before it looks at the disk; on posix "\" is
\* an ordinary character and the name is one directory entry.
ResolveJoin(plat, dir, filename) ==
    IF plat = "nt" THEN Normalise(dir, Split(filename, "\\"))
    ELSE Append(dir, filename)

\* strftime('%Y%m%d_%H%M%S') of the clock.
Timestamp(t) == ToString(t)

\* perform_database_backup (lines 369-397): shutil.copy2 keeps the source's
\* modification time.  fails = an exception inside the try block.
perform_database_backup(files, t, fails) ==
    LET backup_filename == DB_PREFIX \o Timestamp(t) \o ".db"
        backup_filepath == Append(BackupDir, backup_filename)
    IN  IF fails \/ ~Exists(files, DatabasePath)
        THEN [fs |-> files, result |-> {}]
        ELSE [fs |-> WriteFile(files, backup_filepath,
                               FileAt(files, DatabasePath).mtime, t),
              result |-> {[filename |-> backup_filename, type |-> "database"]}]

\* perform_excel_backup (lines 400-542): a new workbook written now.
perform_excel_backup(files, t, fails) ==
    LET backup_filename == EXCEL_PREFIX \o Timestamp(t) \o ".xlsx"
        backup_filepath == Append(BackupDir, backup_filename)
    IN  IF fails THEN [fs |-> files, result |-> {}]
        ELSE [fs |-> WriteFile(files, backup_filepath, t, t),
              result |-> {[filename |-> backup_filename, type |-> "excel"]}]

\* The files a sweep removes: file_mtime < cutoff_time (line 596), with a
\* comparison that also removes a file exactly keep_days old.
Expired_inclusive(mtime, t, keep_days) == mtime <= t - keep_days

\* file_mtime < cutoff_time, cutoff_time = now - timedelta(days=keep_days)
Expired(mtime, t, keep_days) == mtime < t - keep_days

\* A sweep that looks at every entry of the directory.
SweepCandidate_any(filename) == TRUE

\* lines 590-591: entries without a backup prefix are skipped.
SweepCandidate(filename) == HasBackupPrefix(filename)

Range(seq) == {seq[i] : i \in 1..Len(seq)}

\* Some enumeration of a finite set.
RECURSIVE SomeOrder(_)
SomeOrder(S) ==
    IF S = {} THEN <<>>
    ELSE LET x == CHOOSE y \in S : TRUE IN <<x>> \o SomeOrder(S \ {x})

\* os.listdir(backup_dir) returns the entries in an order of the system's
\* choosing: those named in first come first, in that order, the others after.
ListingOrder(names, first) ==
    SelectSeq(first, LAMBDA n : n \in names) \o SomeOrder(names \ Range(first))

\* The for loop of cleanup_old_backups (lines 589-599) over the entries left
\* to visit.  os.remove raises for the entries of unremovable; the loop has
\* no handler of its own, so the exception leaves it for the except clause
\* of line 603 and the entries not yet visited are not looked at.
RECURSIVE SweepLoop(_, _, _, _, _)
SweepLoop(files, entries, t, keep_days, unremovable) ==
    IF entries = <<>> THEN files
    ELSE LET filename == Head(entries)
             filepath == Append(BackupDir, filename)
         IN  IF ~SweepCandidate(filename)
             THEN SweepLoop(files, Tail(entries), t, keep_days, unremovable)
             ELSE IF ~Expired(FileAt(files, filepath).mtime, t, keep_days)
             THEN SweepLoop(files, Tail(entries), t, keep_days, unremovable)
             ELSE IF filename \in unremovable
             THEN files
             ELSE SweepLoop(Remove(files, filepath), Tail(entries), t, keep_days,
                            unremovable)

\* cleanup_old_backups (lines 576-604).
cleanup_old_backups(files, file, t, first, unremovable) ==
    LET keep_days == load_backup_config(file).keep_days
    IN  SweepLoop(files, ListingOrder(ListDir(files, BackupDir), first), t,
                  keep_days, unremovable)

\* Snapshot jobs in which a failure of the database copy ends the run of
\* the jobs.
RunSnapshotJobs_stop_at_failure(files, backup_type, t, dbFails, excelFails) ==
    LET d == IF backup_type \in {"both", "database"}
             THEN perform_database_backup(files, t, dbFails)
             ELSE [fs |-> files, result |-> {}]
        stopped == backup_type \in {"both", "database"} /\ d.result = {}
        e == IF backup_type \in {"both", "excel"} /\ ~stopped
             THEN perform_excel_backup(d.fs, t, excelFails)
             ELSE [fs |-> d.fs, result |-> {}]
    IN  [fs |-> e.fs, results |-> d.result \cup e.result,
         ran |-> IF stopped THEN {"database"}
                 ELSE {"database", "excel"} \cap
                      (IF backup_type = "both" THEN {"database", "excel"}
                       ELSE {backup_type})]

\* Snapshot jobs that run both jobs whatever backup_type says.
RunSnapshotJobs_ignoring_type(files, backup_type, t, dbFails, excelFails) ==
    LET d == perform_database_backup(files, t, dbFails)
        e == perform_excel_backup(d.fs, t, excelFails)
    IN  [fs |-> e.fs, results |-> d.result \cup e.result,
         ran |-> {"database", "excel"}]

\* The snapshot jobs selected by backup_type (lines 556-564 and 2412-2420).
RunSnapshotJobs(files, backup_type, t, dbFails, excelFails) ==
    LET d == IF backup_type \in {"both", "database"}
             THEN perform_database_backup(files, t, dbFails)
             ELSE [fs |-> files, result |-> {}]
        e == IF backup_type \in {"both", "excel"}
             THEN perform_excel_backup(d.fs, t, excelFails)
             ELSE [fs |-> d.fs, result |-> {}]
    IN  [fs |-> e.fs, results |-> d.result \cup e.result,
         ran |-> {"database", "excel"} \cap
                 (IF backup_type = "both" THEN {"database", "excel"}
                  ELSE {backup_type})]

\* perform_full_backup (lines 545-573): the jobs, then the sweep.
perform_full_backup(files, file, t, dbFails, excelFails, first, unremovable) ==
    LET jobs == RunSnapshotJobs(files, load_backup_config(file).backup_type, t,
                                dbFails, excelFails)
    IN  [fs |-> cleanup_old_backups(jobs.fs, file, t, first, unremovable),
         results |-> jobs.results, ran |-> jobs.ran, swept |-> jobs.fs]

Contains(s, c) == \E i \in 1..Len(s) : CharAt(s, i) = c

\* list_backups (lines 2438-2476): the names the listing returns.
list_backups(files) ==
    {filename \in ListDir(files, BackupDir) : HasBackupPrefix(filename)}

\* send_from_directory(backup_dir, filename): werkzeug's safe_join refuses a
\* name that holds the platform's own separator, else the file of that name
\* in the directory is sent.
send_from_directory(plat, files, dir, filename) ==
    IF plat = "nt" /\ Contains(filename, "\\")
    THEN [status |-> "error", served |-> {}]
    ELSE IF ~Exists(files, Append(dir, filename))
    THEN [status |-> "error", served |-> {}]
    ELSE [status |-> "ok", served |-> {Append(dir, filename)}]

\* download_backup (lines 2479-2502).
download_backup(plat, files, filename) ==
    LET filepath == ResolveJoin(plat, BackupDir, filename)
        sent == send_from_directory(plat, files, BackupDir, filename)
    IN  IF ~HasBackupPrefix(filename)
        THEN [status |-> "invalid", served |-> {}, fsAccess |-> FALSE]
        ELSE IF ~Exists(files, filepath)
        THEN [status |-> "not_found", served |-> {}, fsAccess |-> TRUE]
        ELSE [status |-> sent.status, served |-> sent.served, fsAccess |-> TRUE]

\* A delete_backup without the name check of lines 2510-2511.
DeleteNameAllowed_unchecked(filename) == TRUE

\* lines 2510-2511 (and 2484-2485): the "安全检查" on the requested name.
DeleteNameAllowed(filename) == HasBackupPrefix(filename)

\* delete_backup (lines 2505-2528).
delete_backup(plat, files, filename) ==
    LET filepath == ResolveJoin(plat, BackupDir, filename)
    IN  IF ~DeleteNameAllowed(filename)
        THEN [fs |-> files, status |-> "invalid", fsAccess |-> FALSE]
        ELSE IF ~Exists(files, filepath)
        THEN [fs |-> files, status |-> "not_found", fsAccess |-> TRUE]
        ELSE [fs |-> Remove(files, filepath), status |-> "ok", fsAccess |-> TRUE]

(***************************************************************************)
(* The tables of spare parts and their records (src/app.py)                *)
(*                                                                         *)
(* A JSON value of a request body is [type |-> "null"], [type |->          *)
(* "string", s |-> text] or [type |-> "number", n |-> integer]; a body is  *)
(* a function from its keys to such values.  A date is [y, m, d]; NoDate   *)
(* stands for None / NULL in a Date column.                                *)
(***************************************************************************)
JNull == [type |-> "null"]
JStr(text) == [type |-> "string", s |-> text]
JNum(number) == [type |-> "number", n |-> number]

\* data.get(key)
Get(data, key) == IF key \in DOMAIN data THEN data[key] ELSE JNull

\* The truth value Python gives a JSON value in "if v" / "v and ..." / "not v".
Truthy(v) ==
    CASE v.type = "null" -> FALSE
      [] v.type = "string" -> v.s # ""
      [] OTHER -> v.n # 0

NoDate == [y |-> 0, m |-> 0, d |-> 0]

IsLeap(y) == (y % 4 = 0 /\ y % 100 # 0) \/ y % 400 = 0

\* calendar.monthrange(y, m)[1]
DaysInMonth(y, m) ==
    IF m = 2 THEN (IF IsLeap(y) THEN 29 ELSE 28)
    ELSE IF m \in {4, 6, 9, 11} THEN 30 ELSE 31

\* datetime.strptime(text, '%Y-%m-%d').date(): four digits of year, one or
\* two of month and of day, a day the month has; anything else raises
\* ValueError.
strptime(text) ==
    LET f == Split(text, "-")
        wellFormed == /\ Len(f) = 3
                      /\ IsDigits(f[1]) /\ Len(f[1]) = 4
                      /\ IsDigits(f[2]) /\ Len(f[2]) \in {1, 2}
                      /\ IsDigits(f[3]) /\ Len(f[3]) \in {1, 2}
    IN  IF ~wellFormed THEN [ok |-> FALSE, date |-> NoDate]
        ELSE LET y == DecimalValue(f[1])
                 m == DecimalValue(f[2])
                 d == DecimalValue(f[3])
             IN  IF y >= 1 /\ m \in 1..12 /\ d >= 1 /\ d <= DaysInMonth(y, m)
                 THEN [ok |-> TRUE, date |-> [y |-> y, m |-> m, d |-> d]]
                 ELSE [ok |-> FALSE, date |-> NoDate]

\* "strptime(data[key], ...).date() if data.get(key) else None": a string is
\* parsed, a falsy value gives None, strptime raises TypeError for a number.
DateField(data, key) ==
    LET v == Get(data, key)
    IN  IF ~Truthy(v) THEN [ok |-> TRUE, date |-> NoDate]
        ELSE IF v.type = "string" THEN strptime(v.s)
        ELSE [ok |-> FALSE, date |-> NoDate]

\* date + relativedelta(months=n): the month is moved by n, the day is kept
\* unless the target month is shorter, then it is that month's last day.
relativedelta_months(date, n) ==
    LET index == date.y * 12 + (date.m - 1) + n
        y == index \div 12
        m == (index % 12) + 1
    IN  [y |-> y, m |-> m,
         d |-> IF date.d > DaysInMonth(y, m) THEN DaysInMonth(y, m) ELSE date.d]

\* date.toordinal(): days since 0001-01-01 (that day is 1).
RECURSIVE DaysBeforeMonth(_, _)
DaysBeforeMonth(y, m) ==
    IF m = 1 THEN 0 ELSE DaysBeforeMonth(y, m - 1) + DaysInMonth(y, m - 1)

toordinal(date) ==
    LET p == date.y - 1
    IN  p * 365 + (p \div 4) - (p \div 100) + (p \div 400)
        + DaysBeforeMonth(date.y, date.m) + date.d

\* The id the table gives a new row: one more than the largest in use
\* (INTEGER PRIMARY KEY without AUTOINCREMENT).
NextId(rows) ==
    IF rows = {} THEN 1
    ELSE (CHOOSE i \in {r.id : r \in rows} : \A r \in rows : r.id <= i) + 1

PartById(parts, id) == CHOOSE p \in parts : p.id = id
HasPart(parts, id) == \E p \in parts : p.id = id

\* A create_spare_part that never finds the asset number in use.
AssetNumberTaken_never(parts, v) == FALSE

\* SparePart.query.filter_by(asset_number=data['asset_number']).first()
\* (line 1094): some row holds that asset number.
AssetNumberTaken(parts, v) == \E p \in parts : p.asset_number = v

\* create_spare_part (lines 1080-1130).  remarks stands for the descriptive
\* columns, all of which are filled by data.get(column).
create_spare_part(parts, data) ==
    LET last == DateField(data, "last_inspection_date")
        next == DateField(data, "next_inspection_date")
        purchase == DateField(data, "purchase_date")
        id == NextId(parts)
    IN  IF ~Truthy(Get(data, "name")) \/ ~Truthy(Get(data, "asset_number"))
        THEN [parts |-> parts, status |-> "missing", id |-> 0]
        ELSE IF AssetNumberTaken(parts, data["asset_number"])
        THEN [parts |-> parts, status |-> "duplicate", id |-> 0]
        ELSE IF ~last.ok \/ ~next.ok \/ ~purchase.ok
        THEN [parts |-> parts, status |-> "error", id |-> 0]
        ELSE [parts |-> parts \cup
                  {[id |-> id, name |-> data["name"],
                    asset_number |-> data["asset_number"],
                    last_inspection_date |-> last.date,
                    next_inspection_date |-> next.date,
                    purchase_date |-> purchase.date,
                    remarks |-> Get(data, "remarks")]},
              status |-> "ok", id |-> id]

\* lines 1146-1155: "if key in data", then the parsed date for a truthy
\* value and None for a falsy one.
UpdatedDate(data, key, old) ==
    IF key \notin DOMAIN data THEN [ok |-> TRUE, date |-> old]
    ELSE DateField(data, key)

\* lines 1164-1165: "if 'purchase_date' in data and data['purchase_date']".
UpdatedPurchaseDate(data, old) ==
    IF "purchase_date" \in DOMAIN data /\ Truthy(data["purchase_date"])
    THEN DateField(data, "purchase_date")
    ELSE [ok |-> TRUE, date |-> old]

\* update_spare_part (lines 1133-1190).  get_or_404 is inside the try block:
\* an unknown id ends in the except clause like any other exception.  The
\* commit raises IntegrityError when name, a NOT NULL column, was set to null.
update_spare_part(parts, id, data) ==
    IF ~HasPart(parts, id) THEN [parts |-> parts, status |-> "error"]
    ELSE
      LET part == PartById(parts, id)
          last == UpdatedDate(data, "last_inspection_date", part.last_inspection_date)
          next == UpdatedDate(data, "next_inspection_date", part.next_inspection_date)
          purchase == UpdatedPurchaseDate(data, part.purchase_date)
          name == IF "name" \in DOMAIN data THEN data["name"] ELSE part.name
          updated == [part EXCEPT !.name = name,
                                  !.last_inspection_date = last.date,
                                  !.next_inspection_date = next.date,
                                  !.purchase_date = purchase.date,
                                  !.remarks = IF "remarks" \in DOMAIN data
                                              THEN data["remarks"] ELSE @]
      IN  IF ~last.ok \/ ~next.ok \/ ~purchase.ok \/ name.type = "null"
          THEN [parts |-> parts, status |-> "error"]
          ELSE [parts |-> (parts \ {part}) \cup {updated}, status |-> "ok"]

\* A delete that leaves the rows of the other tables alone.
Cascade_none(rows, id) == rows

\* cascade='all, delete-orphan' of SparePart's relationships (lines 665-670):
\* the rows that remain when the part with this id is deleted.
Cascade(rows, id) == {r \in rows : r.spare_part_id # id}

\* delete_spare_part (lines 1193-1211).
delete_spare_part(parts, records, deps, id) ==
    IF ~HasPart(parts, id)
    THEN [parts |-> parts, records |-> records, deps |-> deps, status |-> "error"]
    ELSE [parts |-> parts \ {PartById(parts, id)},
          records |-> Cascade(records, id),
          deps |-> Cascade(deps, id),
          status |-> "ok"]

\* months_diff = days_diff / 30 (line 1038), kept as a fraction.
MonthsDiff(days_diff) == [num |-> days_diff, den |-> 30]

\* A comparison that leaves the bound itself out.
FracLeq_strict(q, n) == q.num < n * q.den

\* q <= n and n <= q for a fraction q with a positive denominator.
FracLeq(q, n) == q.num <= n * q.den
FracGeq(q, n) == q.num >= n * q.den

\* The application-level filter of get_spare_parts (lines 1026-1054):
\* whether a part is kept for this inspection_status.
InspectionFilter(part, inspection_status, today) ==
    IF part.next_inspection_date = NoDate
    THEN inspection_status = "no_inspection"
    ELSE LET days_diff == toordinal(part.next_inspection_date) - toordinal(today)
             months_diff == MonthsDiff(days_diff)
         IN  \/ inspection_status = "expired" /\ days_diff < 0
             \/ inspection_status = "urgent"
                  /\ FracGeq(months_diff, 0) /\ FracLeq(months_diff, 3)
             \/ inspection_status = "warning"
                  /\ ~FracLeq(months_diff, 3) /\ FracLeq(months_diff, 6)
             \/ inspection_status = "normal" /\ ~FracLeq(months_diff, 6)

\* get_spare_parts without the keyword and column filters: the ids returned.
get_spare_parts(parts, inspection_status, today) ==
    IF inspection_status = "" THEN {p.id : p \in parts}
    ELSE {p.id : p \in {q \in parts : InspectionFilter(q, inspection_status, today)}}

\* round(num / den * 100, 2) for 0 <= num <= den, in hundredths.  The
\* quotient is a float: where the exact value lies halfway between two
\* hundredths the float may fall on either side, so both are possible.
RoundedPercent(num, den) ==
    LET lower == (10000 * num) \div den
        rest == (10000 * num) % den
    IN  IF 2 * rest < den THEN {lower}
        ELSE IF 2 * rest > den THEN {lower + 1}
        ELSE {lower, lower + 1}

\* A progress that ignores the total when the dates are out of order.
ClampedPercent_unclamped(remaining_days, total_days) ==
    RoundedPercent(remaining_days, total_days)

\* max(0, min(100, remaining_days / total_days * 100)) rounded, total_days > 0.
ClampedPercent(remaining_days, total_days) ==
    IF remaining_days <= 0 THEN {0}
    ELSE IF remaining_days >= total_days THEN {10000}
    ELSE RoundedPercent(remaining_days, total_days)

\* A progress counted from the last inspection on, not down to the next.
inspection_progress_elapsed(part, today) ==
    IF part.next_inspection_date = NoDate \/ part.last_inspection_date = NoDate
    THEN {0}
    ELSE LET total_days == toordinal(part.next_inspection_date)
                           - toordinal(part.last_inspection_date)
             elapsed == toordinal(today) - toordinal(part.last_inspection_date)
         IN  IF total_days > 0 THEN ClampedPercent(elapsed, total_days) ELSE {0}

\* inspection_progress of SparePart.to_dict (lines 673-696) on the day
\* today, in hundredths of a percent: the values round(.., 2) can give.
inspection_progress(part, today) ==
    IF part.next_inspection_date = NoDate THEN {0}
    ELSE LET days_to_inspection == toordinal(part.next_inspection_date)
                                   - toordinal(today)
         IN  IF part.last_inspection_date # NoDate
             THEN LET total_days == toordinal(part.next_inspection_date)
                                    - toordinal(part.last_inspection_date)
                  IN  IF total_days > 0
                      THEN ClampedPercent(days_to_inspection, total_days)
                      ELSE IF days_to_inspection < 0 THEN {0} ELSE {10000}
             ELSE IF days_to_inspection >= 365 THEN {10000}
             ELSE IF days_to_inspection < 0 THEN {0}
             ELSE RoundedPercent(days_to_inspection, 365)

\* A synchronisation that only moves the part's dates forward.
SyncPart_if_later(part, record) ==
    [part EXCEPT
       !.last_inspection_date =
           IF record.last_inspection_date # NoDate
              /\ (@ = NoDate \/ toordinal(record.last_inspection_date) > toordinal(@))
           THEN record.last_inspection_date ELSE @,
       !.next_inspection_date =
           IF record.next_inspection_date # NoDate
              /\ (@ = NoDate \/ toordinal(record.next_inspection_date) > toordinal(@))
           THEN record.next_inspection_date ELSE @]

\* lines 1413-1420 and 1478-1485: the record's dates that are set are
\* written onto the part.
SyncPart(part, record) ==
    [part EXCEPT
       !.last_inspection_date =
           IF record.last_inspection_date # NoDate
           THEN record.last_inspection_date ELSE @,
       !.next_inspection_date =
           IF record.next_inspection_date # NoDate
           THEN record.next_inspection_date ELSE @]

\* The parts after the synchronisation with a record ("if spare_part:").
SyncParts(parts, record) ==
    IF HasPart(parts, record.spare_part_id)
    THEN LET part == PartById(parts, record.spare_part_id)
         IN  (parts \ {part}) \cup {SyncPart(part, record)}
    ELSE parts

\* A computation that takes place whenever both keys are in the body.
ComputesNext_if_present(data) ==
    /\ Get(data, "last_inspection_date").type # "null"
    /\ Get(data, "inspection_validity_period").type # "null"

\* "if data.get('last_inspection_date') and
\*     data.get('inspection_validity_period')" (lines 1391 and 1461).
ComputesNext(data) ==
    /\ Truthy(Get(data, "last_inspection_date"))
    /\ Truthy(Get(data, "inspection_validity_period"))

\* lines 1389-1395 and 1459-1465 with the date fields of the record: what
\* the handler derives from the body, or that one of its statements raised
\* (KeyError for a missing required key, ValueError / TypeError of
\* strptime and int).
RecordFields(data) ==
    LET last == DateField(data, "last_inspection_date")
        mdate == IF "maintenance_date" \in DOMAIN data
                    /\ data["maintenance_date"].type = "string"
                 THEN strptime(data["maintenance_date"].s)
                 ELSE [ok |-> FALSE, date |-> NoDate]
        months == IF ComputesNext(data)
                  THEN PyInt(data["inspection_validity_period"])
                  ELSE [ok |-> TRUE, value |-> 0]
    IN  [ok |-> /\ last.ok /\ mdate.ok /\ months.ok
                /\ "operator_name" \in DOMAIN data
                /\ data["operator_name"].type # "null",
         maintenance_date |-> mdate.date,
         last_inspection_date |-> last.date,
         inspection_validity_period |-> Get(data, "inspection_validity_period"),
         next_inspection_date |->
             IF ComputesNext(data) /\ last.ok /\ months.ok
             THEN relativedelta_months(last.date, months.value)
             ELSE NoDate]

\* create_maintenance_record (lines 1382-1434).
create_maintenance_record(parts, records, data) ==
    LET f == RecordFields(data)
        id == NextId(records)
    IN  IF ~f.ok \/ "spare_part_id" \notin DOMAIN data
        THEN [parts |-> parts, records |-> records, status |-> "error", id |-> 0]
        ELSE LET record == [id |-> id,
                            spare_part_id |-> data["spare_part_id"].n,
                            maintenance_date |-> f.maintenance_date,
                            last_inspection_date |-> f.last_inspection_date,
                            inspection_validity_period |-> f.inspection_validity_period,
                            next_inspection_date |-> f.next_inspection_date]
             IN  [parts |-> SyncParts(parts, record),
                  records |-> records \cup {record},
                  status |-> "ok", id |-> id]

\* update_maintenance_record (lines 1451-1499).
update_maintenance_record(parts, records, id, data) ==
    LET f == RecordFields(data)
    IN  IF ~(\E r \in records : r.id = id) \/ ~f.ok
        THEN [parts |-> parts, records |-> records, status |-> "error"]
        ELSE LET old == CHOOSE r \in records : r.id = id
                 record == [old EXCEPT
                              !.maintenance_date = f.maintenance_date,
                              !.last_inspection_date = f.last_inspection_date,
                              !.inspection_validity_period = f.inspection_validity_period,
                              !.next_inspection_date = f.next_inspection_date]
             IN  [parts |-> SyncParts(parts, record),
                  records |-> (records \ {old}) \cup {record},
                  status |-> "ok"]

\* A delete that sets the part's dates back to those of the newest record
\* that remains.
delete_maintenance_record_resyncing(parts, records, id) ==
    IF ~(\E r \in records : r.id = id)
    THEN [parts |-> parts, records |-> records, status |-> "error"]
    ELSE LET old == CHOOSE r \in records : r.id = id
             rest == {r \in records \ {old} : r.spare_part_id = old.spare_part_id}
             newest == CHOOSE r \in rest : \A q \in rest : q.id <= r.id
         IN  [parts |-> IF HasPart(parts, old.spare_part_id)
                        THEN LET part == PartById(parts, old.spare_part_id)
                             IN  (parts \ {part}) \cup
                                 {[part EXCEPT
                                    !.last_inspection_date =
                                        IF rest = {} THEN NoDate
                                        ELSE newest.last_inspection_date,
                                    !.next_inspection_date =
                                        IF rest = {} THEN NoDate
                                        ELSE newest.next_inspection_date]}
                        ELSE parts,
              records |-> records \ {old}, status |-> "ok"]

\* delete_maintenance_record (lines 1502-1520).
delete_maintenance_record(parts, records, id) ==
    IF ~(\E r \in records : r.id = id)
    THEN [parts |-> parts, records |-> records, status |-> "error"]
    ELSE [parts |-> parts,
          records |-> records \ {CHOOSE r \in records : r.id = id},
          status |-> "ok"]

\* create_inbound_record, create_outbound_record, create_fault_record and
\* upload_attachment, as far as the row's kind, id and part go.
create_dependent(deps, kind, spare_part_id) ==
    deps \cup {[kind |-> kind,
                id |-> NextId({r \in deps : r.kind = kind}),
                spare_part_id |-> spare_part_id]}

(***************************************************************************)
(* The app.py process                                                      *)
(***************************************************************************)
NoData == [k \in {} |-> FALSE]

\* No run of check_and_migrate yet.
NoRun == [startDb |-> [tables |-> {}, versionLog |-> <<>>], startVersion |-> 0,
          fault |-> "none", kill |-> "none", result |-> "none",
          stepRaised |-> FALSE]


\* What is remembered of the latest handler or job: its kind, the file name
\* it was given, its answer, whether it touched the file system, for a
\* scheduled run the files the sweep met, the results of the snapshot jobs,
\* the names a listing returned and the files a download sent, the snapshot
\* jobs that were called, those of them in which an exception was raised
\* and the entries the sweep could not remove.
NoOp == [kind |-> "none", name |-> "", status |-> "none", fsAccess |-> FALSE,
         swept |-> {}, results |-> {}, listed |-> {}, served |-> {},
         ran |-> {}, raised |-> {}, unremovable |-> {}]

Running(scheds) == {x \in scheds : x.state = "running"}

\* What is remembered of the latest update_backup_config call: whether
\* int(keep_days) could be taken, the success flag of the response and
\* whether a scheduled job was active when the request arrived.
NoUpdate == [happened |-> FALSE, inputOk |-> TRUE, success |-> FALSE,
             activeBefore |-> FALSE]

Summary(data, success, scheds) ==
    [happened |-> TRUE,
     inputOk |-> ("keep_days" \in DOMAIN data => PyInt(data["keep_days"]).ok),
     success |-> success,
     activeBefore |-> (Running(scheds) # {})]

\* The request threads of the server (app.run serves each request on a
\* thread of its own); two are followed.
Threads == {1, 2}

\* A thread outside update_backup_config.  Inside it holds its position, the
\* body, the merged dictionary (config), the hour and minute it parsed and
\* whether CronTrigger takes them, and whether a job was active on arrival.
IdleThread == [pc |-> "idle", data |-> NoData, config |-> default_config,
               hour |-> 0, minute |-> 0, valid |-> FALSE, activeBefore |-> FALSE]

\* What is remembered of the latest request on the tables: the handler, the
\* ids and the body it was given, its answer, and for a listing the filter,
\* the day it ran and the ids of the parts it returned, for the deletion of
\* a part the number of rows of the record tables that went with it, for
\* the details of a part its inspection_progress in hundredths.
NoCall == [kind |-> "none", status |-> "none", part_id |-> 0, record_id |-> 0,
           data |-> NoData, filter |-> "", today |-> NoDate, selected |-> {},
           removed |-> 0, progress |-> 0]

\* No part, no record, no request yet and none in progress.
StoreIdle ==
    /\ threads = [t \in Threads |-> IdleThread]
    /\ spare_parts = {}
    /\ maintenance_records = {}
    /\ dependents = {}
    /\ lastCall = NoCall

\* Files on disk when the process starts: the database db.create_all() made
\* (line 901), a file of somebody else in the backup directory, and an
\* uploaded file outside of it.
ForeignFiles ==
    {[path |-> <<"backups", "notes.txt">>, mtime |-> 0, created |-> 0],
     [path |-> <<"uploads", "manual.pdf">>, mtime |-> 0, created |-> 0]}

InitialFiles ==
    ForeignFiles \cup {[path |-> DatabasePath, mtime |-> 0, created |-> 0]}

\* Statements made to fail during the start-up check.
StartupFaults == {"none", "insert_version"}

\* Databases the start-up migration check can meet.
StartupDatabases ==
    {[exists |-> FALSE, db |-> [tables |-> {}, versionLog |-> <<>>]],
     [exists |-> TRUE,  db |-> [tables |-> {}, versionLog |-> <<>>]]}

Init ==
    /\ \E d \in StartupDatabases : dbExists = d.exists /\ db = d.db
    /\ runs = 0 /\ lastRun = NoRun /\ prevRun = NoRun
    /\ platform = "posix"
    /\ HAS_MIGRATION \in BOOLEAN
    /\ phase = "boot"
    /\ migrationResult = "none"
    /\ configFile \in
         {[exists |-> FALSE, data |-> NoData]} \cup
         {save_backup_config([default_config EXCEPT !.auto_backup_enabled = e]) :
             e \in BOOLEAN}
    /\ backup_scheduler = 0
    /\ schedulers = {}
    /\ now = 0
    /\ fs = InitialFiles
    /\ lastOp = NoOp
    /\ lastUpdate = NoUpdate
    /\ StoreIdle

\* A start-up that goes on whatever the check returned.
PhaseAfterCheck_ignored(result) == "serving"

\* "if not check_and_migrate(): sys.exit(1)" (lines 2596-2598); a killed
\* process is gone as well.
PhaseAfterCheck(result) == IF result = "success" THEN "serving" ELSE "exited"

\* __main__ of app.py (lines 2587-2622).
Startup(fault, kill) ==
    /\ phase = "boot"
    /\ IF HAS_MIGRATION
       THEN LET r == check_and_migrate(dbExists, db, fault, kill)
            IN  /\ db' = r.db
                /\ migrationResult' = r.result
                /\ phase' = PhaseAfterCheck(r.result)
       ELSE /\ phase' = "serving"
            /\ UNCHANGED <<db, migrationResult>>
    /\ UNCHANGED <<dbExists, runs, lastRun, prevRun, platform, HAS_MIGRATION,
                   configFile, backup_scheduler, schedulers, now, fs, lastOp,
                   lastUpdate, threads, spare_parts, maintenance_records,
                   dependents, lastCall>>

\* PUT /api/backup/config
UpdateBackupConfig(data) ==
    /\ phase = "serving"
    /\ LET r == update_backup_config(data, configFile, backup_scheduler, schedulers)
       IN  /\ configFile' = r.file
           /\ backup_scheduler' = r.handle
           /\ schedulers' = r.schedulers
           /\ lastUpdate' = Summary(data, r.success, schedulers)
           /\ lastOp' = [NoOp EXCEPT !.kind = "update_config",
                                     !.status = IF r.success THEN "ok" ELSE "error"]
    /\ UNCHANGED <<storeVars, migVars, threads, platform, HAS_MIGRATION, phase, migrationResult, now, fs>>

\* The jobs among those called in which an exception was raised.
Raised(ran, dbFails, excelFails) ==
    {j \in ran : (j = "database" /\ dbFails) \/ (j = "excel" /\ excelFails)}

\* The 'auto_backup' job of a running scheduler fires: perform_full_backup,
\* with the listing order and the entries whose os.remove raises.
ScheduledRunWith(dbFails, excelFails, first, unremovable) ==
    /\ phase = "serving"
    /\ \E x \in Running(schedulers) : x.jobs # {}
    /\ LET r == perform_full_backup(fs, configFile, now, dbFails, excelFails,
                                    first, unremovable)
       IN  /\ fs' = r.fs
           /\ lastOp' = [NoOp EXCEPT !.kind = "scheduled_run", !.status = "ok",
                                     !.fsAccess = TRUE, !.swept = r.swept,
                                     !.results = r.results, !.ran = r.ran,
                                     !.raised = Raised(r.ran, dbFails, excelFails),
                                     !.unremovable = unremovable]
    /\ UNCHANGED <<storeVars, migVars, threads, platform, HAS_MIGRATION, phase, migrationResult,
                   configFile, backup_scheduler, schedulers, now, lastUpdate>>

\* The scheduled run in which every os.remove of the sweep succeeds.
ScheduledRun(dbFails, excelFails) ==
    ScheduledRunWith(dbFails, excelFails, <<>>, {})

\* Request bodies with the keys of RequestKeys.
Bodies(RequestKeys) ==
    {[k \in ks |-> [auto_backup_enabled |-> e, backup_time |-> t,
                    keep_days |-> kd, backup_type |-> ty][k]] :
        ks \in SUBSET RequestKeys,
        e \in BOOLEAN, t \in RequestTimes, kd \in RequestKeepDays, ty \in RequestTypes}

\* The bodies tried: every combination of the flag, the time and
\* keep_days, and backup_type alone or with the flag.
UpdateInputs ==
    Bodies({"auto_backup_enabled", "backup_time", "keep_days"}) \cup
    Bodies({"auto_backup_enabled", "backup_type"})

Next ==
    \/ \E fault \in StartupFaults, kill \in Kills : Startup(fault, kill)
    \/ \E data \in UpdateInputs : UpdateBackupConfig(data)
    \/ \E dbFails \in BOOLEAN, excelFails \in BOOLEAN : ScheduledRun(dbFails, excelFails)

Spec == Init /\ [][Next]_vars

(***************************************************************************)
(* The serving process with its backups: clock, database writes, scheduled *)
(* runs, manual backups, listing, download and delete                      *)
(***************************************************************************)
\* keep_days values the file holds in the runs studied.
InitKeepDays == {1}
InitBackupTypes == {"both"}

\* File names handed to download_backup and delete_backup.
RequestNames ==
    {"database_backup_0.db", "../etc/passwd", "notes.txt",
     "database_backup_x\\..\\..\\uploads\\manual.pdf"}

\* backup_type values of POST /api/backup/now: the three kinds and a value
\* that is none of them.
RequestBackupTypes == {"both", "database", "excel", "full"}

\* The process is serving and an update has started the scheduler.
BackupInit ==
    /\ dbExists = FALSE /\ db = [tables |-> {}, versionLog |-> <<>>]
    /\ runs = 0 /\ lastRun = NoRun /\ prevRun = NoRun
    /\ platform \in {"posix", "nt"}
    /\ HAS_MIGRATION = TRUE
    /\ phase = "serving"
    /\ migrationResult = "success"
    /\ \E k \in InitKeepDays, ty \in InitBackupTypes :
          configFile = save_backup_config(
              [default_config EXCEPT !.keep_days = k, !.backup_type = ty])
    /\ backup_scheduler = 1
    /\ schedulers = {[id |-> 1, state |-> "running", jobs |-> {JobAt(2, 0)}]}
    /\ now = 0
    /\ fs = InitialFiles
    /\ lastOp = [NoOp EXCEPT !.kind = "update_config", !.status = "ok"]
    /\ lastUpdate = [happened |-> TRUE, inputOk |-> TRUE, success |-> TRUE,
                     activeBefore |-> FALSE]
    /\ StoreIdle

\* A day passes.
Tick ==
    /\ now < MaxNow
    /\ now' = now + 1
    /\ lastOp' = [NoOp EXCEPT !.kind = "tick"]
    /\ UNCHANGED <<storeVars, migVars, threads, platform, HAS_MIGRATION, phase, migrationResult,
                   configFile, backup_scheduler, schedulers, fs, lastUpdate>>

\* Any handler that commits to the database: the file's mtime becomes now.
TouchDb ==
    /\ phase = "serving"
    /\ Exists(fs, DatabasePath)
    /\ FileAt(fs, DatabasePath).mtime < now
    /\ fs' = WriteFile(fs, DatabasePath, now, FileAt(fs, DatabasePath).created)
    /\ lastOp' = [NoOp EXCEPT !.kind = "write"]
    /\ UNCHANGED <<storeVars, migVars, threads, platform, HAS_MIGRATION, phase, migrationResult,
                   configFile, backup_scheduler, schedulers, now, lastUpdate>>

\* backup_now (lines 2404-2435): POST /api/backup/now
BackupNow(backup_type, dbFails, excelFails) ==
    /\ phase = "serving"
    /\ LET r == RunSnapshotJobs(fs, backup_type, now, dbFails, excelFails)
       IN  /\ fs' = r.fs
           /\ lastOp' = [NoOp EXCEPT !.kind = "backup_now", !.name = backup_type,
                                     !.status = IF r.results # {} THEN "ok" ELSE "error",
                                     !.fsAccess = TRUE, !.results = r.results,
                                     !.ran = r.ran,
                                     !.raised = Raised(r.ran, dbFails, excelFails)]
    /\ UNCHANGED <<storeVars, migVars, threads, platform, HAS_MIGRATION, phase, migrationResult,
                   configFile, backup_scheduler, schedulers, now, lastUpdate>>

\* GET /api/backup/list
ListBackups ==
    /\ phase = "serving"
    /\ lastOp' = [NoOp EXCEPT !.kind = "list", !.status = "ok", !.fsAccess = TRUE,
                              !.listed = list_backups(fs)]
    /\ UNCHANGED <<storeVars, migVars, threads, platform, HAS_MIGRATION, phase, migrationResult,
                   configFile, backup_scheduler, schedulers, now, fs, lastUpdate>>

\* GET /api/backup/download/<filename>
DownloadBackup(filename) ==
    /\ phase = "serving"
    /\ LET r == download_backup(platform, fs, filename)
       IN  lastOp' = [NoOp EXCEPT !.kind = "download", !.name = filename,
                                  !.status = r.status, !.fsAccess = r.fsAccess,
                                  !.served = r.served]
    /\ UNCHANGED <<storeVars, migVars, threads, platform, HAS_MIGRATION, phase, migrationResult,
                   configFile, backup_scheduler, schedulers, now, fs, lastUpdate>>

\* DELETE /api/backup/delete/<filename>
DeleteBackup(filename) ==
    /\ phase = "serving"
    /\ LET r == delete_backup(platform, fs, filename)
       IN  /\ fs' = r.fs
           /\ lastOp' = [NoOp EXCEPT !.kind = "delete", !.name = filename,
                                     !.status = r.status, !.fsAccess = r.fsAccess]
    /\ UNCHANGED <<storeVars, migVars, threads, platform, HAS_MIGRATION, phase, migrationResult,
                   configFile, backup_scheduler, schedulers, now, lastUpdate>>

BackupNext ==
    \/ Tick
    \/ TouchDb
    \/ \E dbFails \in BOOLEAN, excelFails \in BOOLEAN : ScheduledRun(dbFails, excelFails)
    \/ \E ty \in {"both", "database", "excel"}, dbFails \in BOOLEAN, excelFails \in BOOLEAN :
          BackupNow(ty, dbFails, excelFails)
    \/ ListBackups
    \/ \E filename \in RequestNames : DownloadBackup(filename)
    \/ \E filename \in RequestNames : DeleteBackup(filename)

SpecBackup == BackupInit /\ [][BackupNext]_vars

(***************************************************************************)
(* POST /api/backup/now alone, with every backup_type a caller may send    *)
(***************************************************************************)
NowNext ==
    \/ Tick
    \/ TouchDb
    \/ \E ty \in RequestBackupTypes, dbFails \in BOOLEAN, excelFails \in BOOLEAN :
          BackupNow(ty, dbFails, excelFails)

SpecNow == BackupInit /\ [][NowNext]_vars

(***************************************************************************)
(* The list, download and delete routes over artifacts written by runs in  *)
(* which no job fails                                                      *)
(***************************************************************************)
FilesNext ==
    \/ Tick
    \/ TouchDb
    \/ ScheduledRun(FALSE, FALSE)
    \/ \E ty \in {"both", "database", "excel"} : BackupNow(ty, FALSE, FALSE)
    \/ ListBackups
    \/ \E filename \in RequestNames : DownloadBackup(filename)
    \/ \E filename \in RequestNames : DeleteBackup(filename)

SpecFiles == BackupInit /\ [][FilesNext]_vars

(***************************************************************************)
(* Scheduled runs over a backup directory that holds older artifacts, with *)
(* the listing order and the removals that fail chosen by the environment  *)
(***************************************************************************)
\* Artifacts of earlier runs found in the backup directory.
OldArtifacts ==
    {[path |-> <<"backups", "database_backup_old.db">>, mtime |-> 0, created |-> 0],
     [path |-> <<"backups", "excel_backup_old.xlsx">>, mtime |-> 0, created |-> 0]}

OldNames == {f.path[Len(f.path)] : f \in OldArtifacts}

\* The entry os.listdir returns first: one of the older artifacts, or any.
ListingFirsts == {<<>>} \cup {<<a>> : a \in OldNames}

\* Entries whose os.remove raises (held open by another process on nt,
\* or not removable by the user the process runs as): at most one.
Unremovables == {{}} \cup {{a} : a \in OldNames}

SweepInit ==
    /\ dbExists = FALSE /\ db = [tables |-> {}, versionLog |-> <<>>]
    /\ runs = 0 /\ lastRun = NoRun /\ prevRun = NoRun
    /\ platform = "posix"
    /\ HAS_MIGRATION = TRUE
    /\ phase = "serving"
    /\ migrationResult = "success"
    /\ \E k \in InitKeepDays, ty \in InitBackupTypes :
          configFile = save_backup_config(
              [default_config EXCEPT !.keep_days = k, !.backup_type = ty])
    /\ backup_scheduler = 1
    /\ schedulers = {[id |-> 1, state |-> "running", jobs |-> {JobAt(2, 0)}]}
    /\ now = 0
    /\ \E old \in SUBSET OldArtifacts : fs = InitialFiles \cup old
    /\ lastOp = [NoOp EXCEPT !.kind = "update_config", !.status = "ok"]
    /\ lastUpdate = [happened |-> TRUE, inputOk |-> TRUE, success |-> TRUE,
                     activeBefore |-> FALSE]
    /\ StoreIdle

SweepNext ==
    \/ Tick
    \/ \E dbFails \in BOOLEAN, excelFails \in BOOLEAN,
          first \in ListingFirsts, unremovable \in Unremovables :
          ScheduledRunWith(dbFails, excelFails, first, unremovable)

SpecSweep == SweepInit /\ [][SweepNext]_vars

(***************************************************************************)
(* Requests on the tables of spare parts and their records                 *)
(***************************************************************************)
\* The serving process with empty tables.
StoreInit ==
    /\ dbExists = FALSE /\ db = [tables |-> {}, versionLog |-> <<>>]
    /\ runs = 0 /\ lastRun = NoRun /\ prevRun = NoRun
    /\ platform = "posix"
    /\ HAS_MIGRATION = TRUE
    /\ phase = "serving"
    /\ migrationResult = "success"
    /\ configFile = [exists |-> FALSE, data |-> NoData]
    /\ backup_scheduler = 0
    /\ schedulers = {}
    /\ now = 0
    /\ fs = InitialFiles
    /\ lastOp = NoOp
    /\ lastUpdate = NoUpdate
    /\ StoreIdle

\* POST /api/spare-parts
CreateSparePart(data) ==
    /\ phase = "serving"
    /\ NextId(spare_parts) <= MaxPartId
    /\ LET r == create_spare_part(spare_parts, data)
       IN  /\ spare_parts' = r.parts
           /\ lastCall' = [NoCall EXCEPT !.kind = "create_spare_part",
                                         !.status = r.status, !.part_id = r.id,
                                         !.data = data]
    /\ UNCHANGED <<maintenance_records, dependents, migVars, appVars>>

\* PUT /api/spare-parts/<part_id>
UpdateSparePart(part_id, data) ==
    /\ phase = "serving"
    /\ LET r == update_spare_part(spare_parts, part_id, data)
       IN  /\ spare_parts' = r.parts
           /\ lastCall' = [NoCall EXCEPT !.kind = "update_spare_part",
                                         !.status = r.status, !.part_id = part_id,
                                         !.data = data]
    /\ UNCHANGED <<maintenance_records, dependents, migVars, appVars>>

\* DELETE /api/spare-parts/<part_id>
DeleteSparePart(part_id) ==
    /\ phase = "serving"
    /\ LET r == delete_spare_part(spare_parts, maintenance_records, dependents,
                                  part_id)
       IN  /\ spare_parts' = r.parts
           /\ maintenance_records' = r.records
           /\ dependents' = r.deps
           /\ lastCall' = [NoCall EXCEPT
                             !.kind = "delete_spare_part",
                             !.status = r.status, !.part_id = part_id,
                             !.removed =
                                 Cardinality(maintenance_records \ r.records)
                                 + Cardinality(dependents \ r.deps)]
    /\ UNCHANGED <<migVars, appVars>>

\* GET /api/spare-parts?inspection_status=...
GetSpareParts(inspection_status, today) ==
    /\ phase = "serving"
    /\ lastCall' = [NoCall EXCEPT
                      !.kind = "get_spare_parts", !.status = "ok",
                      !.filter = inspection_status, !.today = today,
                      !.selected = get_spare_parts(spare_parts, inspection_status,
                                                   today)]
    /\ UNCHANGED <<spare_parts, maintenance_records, dependents, migVars, appVars>>

\* GET /api/spare-parts/<id> on the day today.
GetSparePart(part_id, today) ==
    /\ phase = "serving"
    /\ IF HasPart(spare_parts, part_id)
       THEN \E v \in inspection_progress(PartById(spare_parts, part_id), today) :
               lastCall' = [NoCall EXCEPT
                              !.kind = "get_spare_part", !.status = "ok",
                              !.part_id = part_id, !.today = today,
                              !.progress = v]
       ELSE lastCall' = [NoCall EXCEPT
                           !.kind = "get_spare_part", !.status = "not_found",
                           !.part_id = part_id, !.today = today]
    /\ UNCHANGED <<spare_parts, maintenance_records, dependents, migVars, appVars>>

\* POST /api/inbound-records, /api/outbound-records, /api/fault-records and
\* /api/attachments/upload for a part.
CreateDependent(kind, spare_part_id) ==
    /\ phase = "serving"
    /\ Cardinality(dependents) < MaxDependents
    /\ NextId({r \in dependents : r.kind = kind}) <= MaxDependents
    /\ dependents' = create_dependent(dependents, kind, spare_part_id)
    /\ lastCall' = [NoCall EXCEPT !.kind = "create_dependent", !.status = "ok"]
    /\ UNCHANGED <<spare_parts, maintenance_records, migVars, appVars>>

\* POST /api/maintenance-records
CreateMaintenanceRecord(data) ==
    /\ phase = "serving"
    /\ NextId(maintenance_records) <= MaxRecordId
    /\ LET r == create_maintenance_record(spare_parts, maintenance_records, data)
       IN  /\ spare_parts' = r.parts
           /\ maintenance_records' = r.records
           /\ lastCall' = [NoCall EXCEPT !.kind = "create_maintenance_record",
                                         !.status = r.status, !.record_id = r.id,
                                         !.data = data]
    /\ UNCHANGED <<dependents, migVars, appVars>>

\* PUT /api/maintenance-records/<record_id>
UpdateMaintenanceRecord(record_id, data) ==
    /\ phase = "serving"
    /\ LET r == update_maintenance_record(spare_parts, maintenance_records,
                                          record_id, data)
       IN  /\ spare_parts' = r.parts
           /\ maintenance_records' = r.records
           /\ lastCall' = [NoCall EXCEPT !.kind = "update_maintenance_record",
                                         !.status = r.status,
                                         !.record_id = record_id, !.data = data]
    /\ UNCHANGED <<dependents, migVars, appVars>>

\* DELETE /api/maintenance-records/<record_id>
DeleteMaintenanceRecord(record_id) ==
    /\ phase = "serving"
    /\ LET r == delete_maintenance_record(spare_parts, maintenance_records,
                                          record_id)
       IN  /\ spare_parts' = r.parts
           /\ maintenance_records' = r.records
           /\ lastCall' = [NoCall EXCEPT !.kind = "delete_maintenance_record",
                                         !.status = r.status,
                                         !.record_id = record_id]
    /\ UNCHANGED <<dependents, migVars, appVars>>

(***************************************************************************)
(* Spare parts: create, update, delete                                     *)
(***************************************************************************)
\* Bodies of POST /api/spare-parts: a part with its dates and remarks, a
\* part with the required keys alone, and a body without the name.
PartCreateBodies ==
    {[name |-> JStr("pump"), asset_number |-> JStr("A-1"),
      last_inspection_date |-> JStr("2023-07-15"),
      next_inspection_date |-> JStr("2024-01-15"),
      purchase_date |-> JStr("2023-05-01"), remarks |-> JStr("spare")],
     [name |-> JStr("valve"), asset_number |-> JStr("A-2")],
     [asset_number |-> JStr("A-2")]}

\* Bodies of PUT /api/spare-parts/<id>: keys set to a value, keys set to
\* null, a key the handler does not know, and a date no month has.
PartUpdateBodies ==
    {[purchase_date |-> JNull],
     [remarks |-> JNull, next_inspection_date |-> JNull],
     [last_inspection_date |-> JNull],
     [last_inspection_date |-> JStr("2024-01-15"),
      next_inspection_date |-> JStr("2024-07-15")],
     [asset_number |-> JStr("A-9")],
     [name |-> JNull],
     [purchase_date |-> JStr("2023-02-30")]}

PartIds == 1..MaxPartId

PartsNext ==
    \/ \E data \in PartCreateBodies : CreateSparePart(data)
    \/ \E id \in PartIds, data \in PartUpdateBodies : UpdateSparePart(id, data)
    \/ \E id \in PartIds : DeleteSparePart(id)

SpecParts == StoreInit /\ [][PartsNext]_vars

(***************************************************************************)
(* Spare parts with rows of the record tables, and their deletion          *)
(***************************************************************************)
DependentKinds == {"inbound", "outbound", "fault", "attachment"}

\* Bodies of POST /api/spare-parts with the required keys alone.
PlainPartBodies ==
    {[name |-> JStr("pump"), asset_number |-> JStr("A-1")],
     [name |-> JStr("valve"), asset_number |-> JStr("A-2")]}

\* Bodies of POST /api/maintenance-records with the required keys alone.
PlainRecordBodies ==
    {[spare_part_id |-> JNum(i), operator_name |-> JStr("li"),
      maintenance_date |-> JStr("2024-01-10")] : i \in PartIds}

CascadeNext ==
    \/ \E data \in PlainPartBodies : CreateSparePart(data)
    \/ \E kind \in DependentKinds, id \in PartIds : CreateDependent(kind, id)
    \/ \E data \in PlainRecordBodies : CreateMaintenanceRecord(data)
    \/ \E id \in PartIds : DeleteSparePart(id)

SpecCascade == StoreInit /\ [][CascadeNext]_vars

(***************************************************************************)
(* The inspection status filter of the part list                           *)
(***************************************************************************)
\* Days on which the list is asked for.
TodayValues == {[y |-> 2023, m |-> 12, d |-> 31], [y |-> 2024, m |-> 1, d |-> 1]}

\* next_inspection_date of the parts created: 1 day before, 90 and 180 days
\* after 2024-01-01 (0, 91 and 181 days after 2023-12-31).
DueDates == {"2023-12-31", "2024-03-31", "2024-06-29"}

DuePartBodies ==
    {[name |-> JStr("pump"), asset_number |-> JStr("A-1"),
      next_inspection_date |-> JStr(d)] : d \in DueDates}
    \cup {[name |-> JStr("valve"), asset_number |-> JStr("A-2")]}

\* Values of the inspection_status parameter: none, the five the handler
\* knows and one it does not.
StatusFilters ==
    {"", "no_inspection", "expired", "urgent", "warning", "normal", "overdue"}

InspectNext ==
    \/ \E data \in DuePartBodies : CreateSparePart(data)
    \/ \E id \in PartIds : DeleteSparePart(id)
    \/ \E status \in StatusFilters, today \in TodayValues :
          GetSpareParts(status, today)

SpecInspect == StoreInit /\ [][InspectNext]_vars

(***************************************************************************)
(* The inspection progress shown with a part                               *)
(***************************************************************************)
\* Dates of the parts and days of the requests: a year apart, 3 days apart
\* and 365 days apart (2024 is a leap year).
ProgressDates == {"2023-01-01", "2024-01-01", "2024-01-04", "2024-12-31"}

\* Parts with every pair of these dates, in order, equal and out of order,
\* and with either date or both missing.
ProgressPartBodies ==
    {[name |-> JStr("pump"), asset_number |-> JStr("A-1")]}
    \cup {[name |-> JStr("pump"), asset_number |-> JStr("A-1"),
           last_inspection_date |-> JStr(l)] : l \in ProgressDates}
    \cup {[name |-> JStr("pump"), asset_number |-> JStr("A-1"),
           next_inspection_date |-> JStr(n)] : n \in ProgressDates}
    \cup {[name |-> JStr("pump"), asset_number |-> JStr("A-1"),
           last_inspection_date |-> JStr(l), next_inspection_date |-> JStr(n)] :
             l \in ProgressDates, n \in ProgressDates}

\* Days on which the details are asked for: the dates above, the day after
\* 2024-01-01 and the day after the latest date.
ProgressTodays ==
    {strptime(d).date : d \in ProgressDates \cup {"2024-01-02", "2025-01-01"}}

ProgressNext ==
    \/ \E data \in ProgressPartBodies : CreateSparePart(data)
    \/ \E id \in PartIds : DeleteSparePart(id)
    \/ \E id \in PartIds, today \in ProgressTodays : GetSparePart(id, today)

SpecProgress == StoreInit /\ [][ProgressNext]_vars

(***************************************************************************)
(* Maintenance records of one part                                         *)
(***************************************************************************)
\* Bodies of POST and PUT /api/maintenance-records for part 1: the dates
\* 2024-01-15 with 6 months and with 0 months, 2024-01-31 with 1 month (the
\* month after is shorter), neither date nor validity, and a validity that
\* is no number.
MaintenanceBodies ==
    {[spare_part_id |-> JNum(1), operator_name |-> JStr("li"),
      maintenance_date |-> JStr("2024-01-10")]}
    \cup
    {[spare_part_id |-> JNum(1), operator_name |-> JStr("li"),
      maintenance_date |-> JStr("2024-01-10"),
      last_inspection_date |-> JStr(b.last),
      inspection_validity_period |-> b.validity] :
        b \in {[last |-> "2024-01-15", validity |-> JNum(6)],
               [last |-> "2024-01-15", validity |-> JNum(0)],
               [last |-> "2024-01-31", validity |-> JNum(1)],
               [last |-> "2024-01-15", validity |-> JStr("half")]}}

RecordIds == 1..MaxRecordId

MaintNext ==
    \/ CreateSparePart([name |-> JStr("pump"), asset_number |-> JStr("A-1")])
    \/ \E data \in MaintenanceBodies : CreateMaintenanceRecord(data)
    \/ \E id \in RecordIds, data \in MaintenanceBodies :
          UpdateMaintenanceRecord(id, data)
    \/ \E id \in RecordIds : DeleteMaintenanceRecord(id)

SpecMaint == StoreInit /\ [][MaintNext]_vars

(***************************************************************************)
(* Maintenance records with other validity periods and later dates         *)
(***************************************************************************)
\* Bodies of POST and PUT /api/maintenance-records for part 1: the required
\* keys alone, 2024-01-15 with 6 months and with -3 months, and 2024-08-01
\* (after 2024-01-15 plus 6 months) without a validity period.
ValidityBodies ==
    {[spare_part_id |-> JNum(1), operator_name |-> JStr("li"),
      maintenance_date |-> JStr("2024-01-10")],
     [spare_part_id |-> JNum(1), operator_name |-> JStr("li"),
      maintenance_date |-> JStr("2024-01-10"),
      last_inspection_date |-> JStr("2024-08-01")]}
    \cup
    {[spare_part_id |-> JNum(1), operator_name |-> JStr("li"),
      maintenance_date |-> JStr("2024-01-10"),
      last_inspection_date |-> JStr("2024-01-15"),
      inspection_validity_period |-> JNum(v)] : v \in {6, -3}}

ValidityNext ==
    \/ CreateSparePart([name |-> JStr("pump"), asset_number |-> JStr("A-1")])
    \/ \E data \in ValidityBodies : CreateMaintenanceRecord(data)
    \/ \E id \in RecordIds, data \in ValidityBodies :
          UpdateMaintenanceRecord(id, data)

SpecValidity == StoreInit /\ [][ValidityNext]_vars

(***************************************************************************)
(* PUT /api/backup/config on request threads that interleave: the handler  *)
(* statement by statement.  The file and the module-level backup_scheduler *)
(* are shared and read anew by each statement that names them.             *)
(***************************************************************************)
\* The thread leaves the handler with its response.
Return(t, success) ==
    /\ threads' = [threads EXCEPT ![t] = IdleThread]
    /\ lastOp' = [NoOp EXCEPT !.kind = "update_config",
                              !.status = IF success THEN "ok" ELSE "error"]
    /\ lastUpdate' = [happened |-> TRUE, inputOk |-> TRUE, success |-> success,
                      activeBefore |-> threads[t].activeBefore]

\* The thread goes on to its next statement.
Goto(t, pc) ==
    /\ threads' = [threads EXCEPT ![t].pc = pc]
    /\ UNCHANGED <<lastOp, lastUpdate>>

\* lines 2372-2384: the body, load_backup_config() and the four updates of
\* the dictionary.
EnterUpdate(t, data) ==
    /\ phase = "serving"
    /\ threads[t].pc = "idle"
    /\ Cardinality(schedulers) < MaxSchedulers
    /\ LET config == load_backup_config(configFile)
           keep   == IF "keep_days" \in DOMAIN data THEN PyInt(data["keep_days"])
                     ELSE [ok |-> TRUE, value |-> config.keep_days]
           merged == [k \in ConfigKeys |->
                        IF k = "keep_days" THEN keep.value
                        ELSE IF k \in DOMAIN data THEN data[k] ELSE config[k]]
       IN  IF ~keep.ok
           THEN /\ lastOp' = [NoOp EXCEPT !.kind = "update_config",
                                          !.status = "error"]
                /\ lastUpdate' = Summary(data, FALSE, schedulers)
                /\ UNCHANGED threads
           ELSE /\ threads' = [threads EXCEPT ![t] =
                                 [IdleThread EXCEPT
                                    !.pc = "merged", !.data = data,
                                    !.config = merged,
                                    !.activeBefore = (Running(schedulers) # {})]]
                /\ UNCHANGED <<lastOp, lastUpdate>>
    /\ UNCHANGED <<storeVars, migVars, platform, HAS_MIGRATION, phase,
                   migrationResult, now, fs, configFile, backup_scheduler,
                   schedulers>>

\* line 2386: save_backup_config(config)
SaveConfig(t) ==
    /\ threads[t].pc = "merged"
    /\ configFile' = save_backup_config(threads[t].config)
    /\ Goto(t, "saved")
    /\ UNCHANGED <<storeVars, migVars, platform, HAS_MIGRATION, phase,
                   migrationResult, now, fs, backup_scheduler, schedulers>>

\* line 637: "if backup_scheduler:"
TestHandle(t) ==
    /\ threads[t].pc = "saved"
    /\ Goto(t, IF backup_scheduler = 0 THEN "down" ELSE "held")
    /\ UNCHANGED <<storeVars, migVars, platform, HAS_MIGRATION, phase,
                   migrationResult, now, fs, configFile, backup_scheduler,
                   schedulers>>

\* line 638: backup_scheduler.shutdown() on the scheduler the handle names
\* now; SchedulerNotRunningError when it does not run.
ShutdownHeld(t) ==
    /\ threads[t].pc = "held"
    /\ LET down == shutdown_backup_scheduler(backup_scheduler, schedulers)
       IN  /\ schedulers' = Collect(backup_scheduler, down.schedulers)
           /\ IF down.raised THEN Return(t, FALSE) ELSE Goto(t, "down")
    /\ UNCHANGED <<storeVars, migVars, platform, HAS_MIGRATION, phase,
                   migrationResult, now, fs, configFile, backup_scheduler>>

\* lines 613-620: load_backup_config(), the early return when auto backup
\* is disabled, and hour, minute = map(int, backup_time.split(':')).
ReadConfig(t) ==
    /\ threads[t].pc = "down"
    /\ LET config == load_backup_config(configFile)
           time   == ParseBackupTime(config.backup_time)
       IN  IF ~config.auto_backup_enabled THEN Return(t, TRUE)
           ELSE IF ~time.parsed THEN Return(t, FALSE)
           ELSE /\ threads' = [threads EXCEPT ![t].pc = "parsed",
                                              ![t].hour = time.hour,
                                              ![t].minute = time.minute,
                                              ![t].valid = time.valid]
                /\ UNCHANGED <<lastOp, lastUpdate>>
    /\ UNCHANGED <<storeVars, migVars, platform, HAS_MIGRATION, phase,
                   migrationResult, now, fs, configFile, backup_scheduler,
                   schedulers>>

\* line 622: backup_scheduler = BackgroundScheduler(), and the CronTrigger
\* of line 625, which raises for an hour or minute out of range.
AssignHandle(t) ==
    /\ threads[t].pc = "parsed"
    /\ LET id == FreshId(schedulers)
       IN  /\ backup_scheduler' = id
           /\ schedulers' = Collect(id, schedulers \cup
                                {[id |-> id, state |-> "stopped", jobs |-> {}]})
    /\ IF threads[t].valid THEN Goto(t, "assigned") ELSE Return(t, FALSE)
    /\ UNCHANGED <<storeVars, migVars, platform, HAS_MIGRATION, phase,
                   migrationResult, now, fs, configFile>>

\* lines 623-629: backup_scheduler.add_job(..., id='auto_backup',
\* replace_existing=True) on the scheduler the handle names now.
AddJob(t) ==
    /\ threads[t].pc = "assigned"
    /\ LET cur == SchedulerById(schedulers, backup_scheduler)
       IN  schedulers' = (schedulers \ {cur}) \cup
               {[cur EXCEPT !.jobs = {JobAt(threads[t].hour, threads[t].minute)}]}
    /\ Goto(t, "added")
    /\ UNCHANGED <<storeVars, migVars, platform, HAS_MIGRATION, phase,
                   migrationResult, now, fs, configFile, backup_scheduler>>

\* line 630: backup_scheduler.start() on the scheduler the handle names
\* now; SchedulerAlreadyRunningError when it runs already.
StartHeld(t) ==
    /\ threads[t].pc = "added"
    /\ LET cur == SchedulerById(schedulers, backup_scheduler)
       IN  IF cur.state = "running"
           THEN /\ Return(t, FALSE)
                /\ UNCHANGED schedulers
           ELSE /\ Return(t, TRUE)
                /\ schedulers' = (schedulers \ {cur}) \cup
                                 {[cur EXCEPT !.state = "running"]}
    /\ UNCHANGED <<storeVars, migVars, platform, HAS_MIGRATION, phase,
                   migrationResult, now, fs, configFile, backup_scheduler>>

\* Bodies of the requests that interleave: two backup_time values, and
\* auto backup switched off.
ConcurrentInputs ==
    {[backup_time |-> "03:30"], [backup_time |-> "04:00"],
     [auto_backup_enabled |-> FALSE]}

ThreadsNext ==
    \/ \E t \in Threads, data \in ConcurrentInputs : EnterUpdate(t, data)
    \/ \E t \in Threads : SaveConfig(t)
    \/ \E t \in Threads : TestHandle(t)
    \/ \E t \in Threads : ShutdownHeld(t)
    \/ \E t \in Threads : ReadConfig(t)
    \/ \E t \in Threads : AssignHandle(t)
    \/ \E t \in Threads : AddJob(t)
    \/ \E t \in Threads : StartHeld(t)

SpecThreads == StoreInit /\ [][ThreadsNext]_vars

(***************************************************************************)
(* The migration tool run again and again on one database                  *)
(***************************************************************************)
\* The app.py process does not run while the migration tool is studied alone.
AppIdle ==
    /\ platform = "posix" /\ HAS_MIGRATION = TRUE /\ phase = "boot"
    /\ migrationResult = "none"
    /\ configFile = [exists |-> FALSE, data |-> NoData]
    /\ backup_scheduler = 0 /\ schedulers = {} /\ now = 0 /\ fs = {}
    /\ lastOp = NoOp /\ lastUpdate = NoUpdate
    /\ StoreIdle

\* Version logs a database can hold when the program starts: none, the one
\* this program writes, and the one a later program version left behind.
InitLogs == {<<>>, <<1>>, <<1, 2>>}

MigInit ==
    /\ dbExists \in BOOLEAN
    /\ \E ts \in SUBSET SchemaTables, hasLog \in BOOLEAN, log \in InitLogs :
          /\ (~hasLog => log = <<>>)
          /\ db = [tables |-> ts \cup (IF hasLog THEN {"db_version"} ELSE {}),
                   versionLog |-> log]
    /\ (~dbExists => db = [tables |-> {}, versionLog |-> <<>>])
    /\ runs = 0
    /\ lastRun = NoRun
    /\ prevRun = NoRun
    /\ AppIdle

\* One run of check_and_migrate (python db_migration.py, or the start of app.py).
RunMigration(fault, kill) ==
    /\ runs < MaxRuns
    /\ LET r == check_and_migrate(dbExists, db, fault, kill)
       IN  /\ db' = r.db
           /\ lastRun' = [startDb |-> db, startVersion |-> get_db_version(db),
                          fault |-> fault, kill |-> kill, result |-> r.result,
                          stepRaised |-> r.stepRaised]
    /\ prevRun' = lastRun
    /\ runs' = runs + 1
    /\ UNCHANGED dbExists
    /\ UNCHANGED appVars
    /\ UNCHANGED storeVars

MigNext == \E fault \in Faults, kill \in Kills : RunMigration(fault, kill)

SpecMig == MigInit /\ [][MigNext]_vars

(***************************************************************************)
(* Claims about the migrator (checked under SpecMig)                       *)
(***************************************************************************)
Undisturbed(run) == run.fault = "none" /\ run.kill = "none"

CountVersion(log, v) == Cardinality({i \in 1..Len(log) : log[i] = v})

\* C4: two undisturbed runs of check_and_migrate in a row, the first started
\* at a version <= target (empty or absent log included), both return
\* success and the second leaves the version log as it found it.
C4_MigrateTwiceIdempotent ==
    (/\ runs >= 2
     /\ prevRun.startVersion <= CURRENT_DB_VERSION
     /\ Undisturbed(prevRun)
     /\ Undisturbed(lastRun))
    => /\ prevRun.result = "success"
       /\ lastRun.result = "success"
       /\ db.versionLog = lastRun.startDb.versionLog

\* C4 witness: a first run that migrated 0 -> 1 on an existing database
\* without a version table, followed by a second undisturbed run.
C4_Witness ==
    /\ runs >= 2
    /\ dbExists
    /\ "db_version" \notin prevRun.startDb.tables
    /\ Undisturbed(prevRun) /\ Undisturbed(lastRun)
    /\ prevRun.result = "success" /\ lastRun.result = "success"
    /\ db.versionLog = <<1>>

\* C5: when a statement inside a migration step raised, check_and_migrate
\* returns failure and the step's version is not recorded in the log.
C5_StepExceptionFails ==
    lastRun.stepRaised
    => /\ lastRun.result = "failure"
       /\ db.versionLog = lastRun.startDb.versionLog

\* C6: a run started below the target and killed part-way, followed by an
\* undisturbed run to completion, ends with every schema object present,
\* current version = target and exactly one log entry for the version.
C6_RecoverAfterInterrupt ==
    (/\ runs >= 2
     /\ dbExists
     /\ prevRun.result = "killed"
     /\ prevRun.startVersion < CURRENT_DB_VERSION
     /\ Undisturbed(lastRun))
    => /\ lastRun.result = "success"
       /\ SchemaTables \subseteq db.tables
       /\ get_db_version(db) = CURRENT_DB_VERSION
       /\ CountVersion(db.versionLog, CURRENT_DB_VERSION) = 1

\* C6 witness: the first run died after creating attachments, the second
\* run created the remaining table and recorded the version.
C6_Witness ==
    /\ runs >= 2
    /\ dbExists
    /\ prevRun.result = "killed"
    /\ prevRun.kill = "after_attachments"
    /\ prevRun.startDb.tables = {}
    /\ Undisturbed(lastRun)
    /\ lastRun.startDb.tables = {"db_version", "attachments"}
    /\ lastRun.result = "success"
    /\ db.versionLog = <<1>>

(***************************************************************************)
(* Claims about the scheduler and the start-up (checked under Spec)        *)
(***************************************************************************)
Cfg == load_backup_config(configFile)

\* The one job a running scheduler holds for the persisted backup_time.
JobFor(backup_time) ==
    JobAt(ParseBackupTime(backup_time).hour, ParseBackupTime(backup_time).minute)

\* Exactly one scheduler runs, it is the module-level one and its only job
\* fires at backup_time.
OneJobAt(scheds, handle, backup_time) ==
    \E x \in scheds :
        /\ Running(scheds) = {x}
        /\ x.id = handle
        /\ x.jobs = {JobFor(backup_time)}

\* C1: from a state with an active job, an update that disables auto backup
\* followed by an update that enables it with a new valid backup_time both
\* succeed, and then exactly one job is active, at the new time, in a
\* scheduler that did not exist before.
C1_DisableThenEnable ==
    [][(/\ lastUpdate.happened /\ lastUpdate.inputOk /\ lastUpdate.activeBefore
        /\ ~Cfg.auto_backup_enabled
        /\ lastOp'.kind = "update_config" /\ lastUpdate'.inputOk
        /\ load_backup_config(configFile').auto_backup_enabled
        /\ load_backup_config(configFile').backup_time # Cfg.backup_time
        /\ ParseBackupTime(load_backup_config(configFile').backup_time).valid)
       => /\ lastUpdate.success
          /\ lastUpdate'.success
          /\ OneJobAt(schedulers', backup_scheduler',
                      load_backup_config(configFile').backup_time)
          /\ \A x \in Running(schedulers') : x.id \notin {y.id : y \in schedulers}
      ]_vars

\* C2: every update that succeeds and leaves auto_backup_enabled true ends
\* with the scheduler that was there before shut down and exactly one
\* 'auto_backup' job, at the backup_time now in the file.
C2_UpdateRestartsScheduler ==
    [][(/\ lastOp'.kind = "update_config"
        /\ lastUpdate'.success
        /\ load_backup_config(configFile').auto_backup_enabled)
       => /\ OneJobAt(schedulers', backup_scheduler',
                      load_backup_config(configFile').backup_time)
          /\ \A x \in Running(schedulers') : x.id \notin {y.id : y \in schedulers}
      ]_vars

\* C2 witness: a successful update that met a running scheduler and left a
\* job at 03:30.
C2_Witness ==
    /\ lastOp.kind = "update_config"
    /\ lastUpdate.success /\ lastUpdate.activeBefore
    /\ Cfg.auto_backup_enabled /\ Cfg.backup_time = "03:30"
    /\ OneJobAt(schedulers, backup_scheduler, "03:30")

\* C3: once an update has left auto_backup_enabled false, no scheduler runs
\* and no scheduled run can fire, for as long as the file says so.
C3_DisabledMeansNoJob ==
    (lastUpdate.happened /\ ~Cfg.auto_backup_enabled)
    => /\ Running(schedulers) = {}
       /\ ~ENABLED (\E dbFails \in BOOLEAN, excelFails \in BOOLEAN :
                       ScheduledRun(dbFails, excelFails))

\* C3 witness: an update met an active job and left auto backup disabled.
C3_Witness ==
    /\ lastOp.kind = "update_config"
    /\ lastUpdate.success /\ lastUpdate.activeBefore
    /\ ~Cfg.auto_backup_enabled
    /\ backup_scheduler # 0

IsArtifactPath(path) ==
    /\ Len(path) = Len(BackupDir) + 1
    /\ SubSeq(path, 1, Len(BackupDir)) = BackupDir
    /\ HasBackupPrefix(path[Len(path)])

Paths(files) == {f.path : f \in files}

\* C8: the sweep of a scheduled run removes exactly the recognized artifacts
\* whose age, the time since they were created, exceeds keep_days, and keeps
\* the others.
C8_SweepByAge ==
    lastOp.kind = "scheduled_run"
    => \A f \in lastOp.swept :
          IsArtifactPath(f.path)
          => (~Exists(fs, f.path) <=> now - f.created > Cfg.keep_days)

\* C9: download_backup and delete_backup given a name without a backup
\* prefix answer "invalid" without touching the file system, and no file
\* changes.
C9_BadNameRejected ==
    [][(/\ lastOp'.kind \in {"download", "delete"}
        /\ ~HasBackupPrefix(lastOp'.name))
       => /\ lastOp'.status = "invalid"
          /\ ~lastOp'.fsAccess
          /\ lastOp'.served = {}
          /\ fs' = fs
      ]_vars

\* C9 witness: delete_backup("../etc/passwd") was refused while the backup
\* directory held an artifact.
C9_Witness ==
    /\ lastOp.kind = "delete"
    /\ lastOp.name = "../etc/passwd"
    /\ lastOp.status = "invalid"
    /\ \E f \in fs : IsArtifactPath(f.path)

\* C10: whatever runs, a file that is not a recognized artifact is never
\* removed, never listed and never sent.
C10_OnlyArtifactsTouched ==
    [][/\ \A p \in Paths(fs) \ Paths(fs') : IsArtifactPath(p)
       /\ \A filename \in lastOp'.listed : HasBackupPrefix(filename)
       /\ \A p \in lastOp'.served : IsArtifactPath(p)
      ]_vars

(***************************************************************************)
(* Claims about failures inside a run (checked under SpecSweep and         *)
(* SpecBackup)                                                             *)
(***************************************************************************)
\* The recognized artifacts the sweep of the latest run met whose age
\* (now minus creation time) exceeds keep_days.
ExpiredMet ==
    {f \in lastOp.swept : /\ IsArtifactPath(f.path)
                          /\ now - f.created > Cfg.keep_days}

\* C11: when the removal of one expired artifact fails during a sweep, every
\* other expired recognized artifact is still deleted by that sweep.
C11_SweepContinuesAfterFailure ==
    lastOp.kind = "scheduled_run"
    => \A f \in ExpiredMet :
          f.path[Len(f.path)] \notin lastOp.unremovable => ~Exists(fs, f.path)

\* The snapshot jobs a backup_type selects.
Selected(backup_type) ==
    IF backup_type = "both" THEN {"database", "excel"}
    ELSE {backup_type} \cap {"database", "excel"}

ResultTypes(results) == {r.type : r \in results}

\* Every result names an artifact written by this run.
ResultsWritten(results, files, t) ==
    \A r \in results :
       \E f \in files : /\ f.path = Append(BackupDir, r.filename)
                         /\ f.created = t

\* C12: in a scheduled run with backup_type both, each snapshot job is
\* called whatever the other did, the run ends normally, its results are
\* those of the jobs in which nothing was raised, and the sweep ran on the
\* directory the jobs left (removing what the sweep holds to be expired
\* when no removal fails).
C12_JobFailuresIsolated ==
    [][(lastOp'.kind = "scheduled_run" /\ Cfg.backup_type = "both")
       => /\ lastOp'.ran = {"database", "excel"}
          /\ lastOp'.status = "ok"
          /\ ResultTypes(lastOp'.results) = lastOp'.ran \ lastOp'.raised
          /\ ResultsWritten(lastOp'.results, lastOp'.swept, now)
          /\ fs' \subseteq lastOp'.swept
          /\ lastOp'.unremovable = {}
             => fs' = {f \in lastOp'.swept :
                         ~(/\ IsArtifactPath(f.path)
                           /\ Expired(f.mtime, now, Cfg.keep_days))}
      ]_vars

\* A run whose database job raised while the Excel job delivered, and whose
\* sweep removed an older artifact.
C12_Witness ==
    /\ lastOp.kind = "scheduled_run"
    /\ lastOp.raised = {"database"}
    /\ ResultTypes(lastOp.results) = {"excel"}
    /\ \E f \in OldArtifacts : f \in lastOp.swept /\ ~Exists(fs, f.path)

\* C13: backup_now calls exactly the snapshot jobs its backup_type selects,
\* answers with the results of those in which nothing was raised, reports
\* success exactly when there is such a result, writes nothing but the
\* artifacts it reports, and leaves the configuration file and the
\* scheduler as they were.
C13_BackupNowRunsSelected ==
    [][lastOp'.kind = "backup_now"
       => /\ lastOp'.ran = Selected(lastOp'.name)
          /\ ResultTypes(lastOp'.results) = lastOp'.ran \ lastOp'.raised
          /\ ResultsWritten(lastOp'.results, fs', now)
          /\ (lastOp'.status = "ok") <=> (lastOp'.results # {})
          /\ Paths(fs) \subseteq Paths(fs')
          /\ Paths(fs') \ Paths(fs) \subseteq
                {Append(BackupDir, r.filename) : r \in lastOp'.results}
          /\ configFile' = configFile
          /\ schedulers' = schedulers
          /\ backup_scheduler' = backup_scheduler
      ]_vars

\* A manual backup of kind both in which the database job raised delivered
\* the Excel export alone and reported success.
C13_Witness ==
    /\ lastOp.kind = "backup_now"
    /\ lastOp.name = "both"
    /\ lastOp.raised = {"database"}
    /\ lastOp.status = "ok"
    /\ ResultTypes(lastOp.results) = {"excel"}
    /\ Exists(fs, Append(BackupDir, EXCEL_PREFIX \o Timestamp(now) \o ".xlsx"))

(***************************************************************************)
(* Claims about maintenance records (checked under SpecMaint)              *)
(***************************************************************************)
RecordById(records, id) == CHOOSE r \in records : r.id = id

\* The latest request created or updated a maintenance record.
RecordWritten(call) ==
    /\ call.kind \in {"create_maintenance_record", "update_maintenance_record"}
    /\ call.status = "ok"

\* d plus m calendar months: the same day of the month m months on, or that
\* month's last day when it has no such day.
PlusMonths(date, months) ==
    LET total == (date.m - 1) + months
        y == date.y + (total \div 12)
        m == (total % 12) + 1
        lastDay == DaysInMonth(y, m)
    IN  [y |-> y, m |-> m, d |-> IF date.d < lastDay THEN date.d ELSE lastDay]

\* The body gives last_inspection_date as a date and
\* inspection_validity_period as an integer >= 0.
SuppliesDateAndMonths(data) ==
    /\ "last_inspection_date" \in DOMAIN data
    /\ data["last_inspection_date"].type = "string"
    /\ strptime(data["last_inspection_date"].s).ok
    /\ "inspection_validity_period" \in DOMAIN data
    /\ data["inspection_validity_period"].type = "number"
    /\ data["inspection_validity_period"].n >= 0

\* C14: a record created or updated with last_inspection_date d and a
\* validity of m >= 0 months holds next_inspection_date = d plus m calendar
\* months, and so does its part.
C14_NextIsLastPlusMonths ==
    (RecordWritten(lastCall) /\ SuppliesDateAndMonths(lastCall.data))
    => LET r == RecordById(maintenance_records, lastCall.record_id)
           expected == PlusMonths(strptime(lastCall.data["last_inspection_date"].s).date,
                                  lastCall.data["inspection_validity_period"].n)
       IN  /\ r.next_inspection_date = expected
           /\ HasPart(spare_parts, r.spare_part_id)
              => PartById(spare_parts, r.spare_part_id).next_inspection_date = expected

\* C15: after a record was created or updated, each of its two inspection
\* dates that is set is the part's, whatever the part held and whatever its
\* other records say; a date the record leaves unset leaves the part's as
\* it was.
C15_LastWriteWins ==
    [][RecordWritten(lastCall')
       => LET r == RecordById(maintenance_records', lastCall'.record_id)
          IN  HasPart(spare_parts', r.spare_part_id)
              => LET before == PartById(spare_parts, r.spare_part_id)
                     after == PartById(spare_parts', r.spare_part_id)
                 IN  /\ after.last_inspection_date =
                          IF r.last_inspection_date # NoDate
                          THEN r.last_inspection_date
                          ELSE before.last_inspection_date
                     /\ after.next_inspection_date =
                          IF r.next_inspection_date # NoDate
                          THEN r.next_inspection_date
                          ELSE before.next_inspection_date
      ]_vars

\* A record was written whose next_inspection_date lies before that of
\* another record of the part, and the part holds the written one.
C15_Witness ==
    /\ RecordWritten(lastCall)
    /\ LET r == RecordById(maintenance_records, lastCall.record_id)
       IN  /\ r.next_inspection_date # NoDate
           /\ HasPart(spare_parts, r.spare_part_id)
           /\ PartById(spare_parts, r.spare_part_id).next_inspection_date
                = r.next_inspection_date
           /\ \E q \in maintenance_records :
                 /\ q.spare_part_id = r.spare_part_id
                 /\ q.next_inspection_date # NoDate
                 /\ toordinal(q.next_inspection_date) > toordinal(r.next_inspection_date)

\* C16: deleting a maintenance record leaves every part as it was.
C16_DeleteKeepsPartDates ==
    [][(lastCall'.kind = "delete_maintenance_record" /\ lastCall'.status = "ok")
       => spare_parts' = spare_parts]_vars

\* A record was deleted; its part holds a next_inspection_date that none of
\* the part's remaining records has, and such records remain.
C16_Witness ==
    /\ lastCall.kind = "delete_maintenance_record"
    /\ lastCall.status = "ok"
    /\ \E part \in spare_parts :
          /\ part.next_inspection_date # NoDate
          /\ \E r \in maintenance_records : r.spare_part_id = part.id
          /\ \A r \in maintenance_records :
                r.spare_part_id = part.id
                => r.next_inspection_date # part.next_inspection_date

(***************************************************************************)
(* Claims about spare parts (checked under SpecCascade, SpecParts and      *)
(* SpecInspect)                                                            *)
(***************************************************************************)
\* C17: after a part was deleted no maintenance record and no inbound,
\* outbound, fault or attachment row refers to it, and the other parts and
\* the rows of the other parts are as they were.
C17_DeleteCascades ==
    [][(lastCall'.kind = "delete_spare_part" /\ lastCall'.status = "ok")
       => LET id == lastCall'.part_id
          IN  /\ ~HasPart(spare_parts', id)
              /\ \A r \in maintenance_records' \cup dependents' :
                    r.spare_part_id # id
              /\ spare_parts' = {p \in spare_parts : p.id # id}
              /\ maintenance_records'
                   = {r \in maintenance_records : r.spare_part_id # id}
              /\ dependents' = {r \in dependents : r.spare_part_id # id}
      ]_vars

\* A part went together with a maintenance record and a row of another
\* table, while another part and its record stayed.
C17_Witness ==
    /\ lastCall.kind = "delete_spare_part"
    /\ lastCall.status = "ok"
    /\ lastCall.removed >= 2
    /\ \E p \in spare_parts :
          \E r \in maintenance_records : r.spare_part_id = p.id

\* C18: creating a part under an asset number that a part already has
\* fails and leaves the parts as they were; the failure is the duplicate
\* error whenever the body has its required name.
C18_DuplicateAssetNumber ==
    [][(/\ lastCall'.kind = "create_spare_part"
        /\ \E p \in spare_parts :
              p.asset_number = Get(lastCall'.data, "asset_number"))
       => /\ spare_parts' = spare_parts
          /\ lastCall'.status # "ok"
          /\ Truthy(Get(lastCall'.data, "name"))
                => lastCall'.status = "duplicate"
      ]_vars

\* A create was turned down as a duplicate while parts exist.
C18_Witness ==
    /\ lastCall.kind = "create_spare_part"
    /\ lastCall.status = "duplicate"
    /\ \E p \in spare_parts : p.asset_number = lastCall.data["asset_number"]

\* The columns of a part and the value a column has when it is cleared.
PartColumns ==
    {"name", "asset_number", "last_inspection_date", "next_inspection_date",
     "purchase_date", "remarks"}
NullableColumns ==
    {"last_inspection_date", "next_inspection_date", "purchase_date", "remarks"}
Cleared(column) == IF column = "remarks" THEN JNull ELSE NoDate

\* C19: an update leaves every column whose key is not in the body as it
\* was and clears every nullable column whose key comes with null.
C19_PartialUpdate ==
    [][(lastCall'.kind = "update_spare_part" /\ lastCall'.status = "ok")
       => LET before == PartById(spare_parts, lastCall'.part_id)
              after == PartById(spare_parts', lastCall'.part_id)
              data == lastCall'.data
          IN  /\ \A c \in PartColumns \ DOMAIN data : after[c] = before[c]
              /\ \A c \in NullableColumns \cap DOMAIN data :
                    data[c] = JNull => after[c] = Cleared(c)
      ]_vars

\* The filters for parts that have a next_inspection_date.
DueFilters == {"expired", "urgent", "warning", "normal"}

\* The band a number of days to the inspection falls in.
Band(days) ==
    IF days < 0 THEN "expired"
    ELSE IF days <= 90 THEN "urgent"
    ELSE IF days <= 180 THEN "warning"
    ELSE "normal"

\* C20: a listing with one of the five status filters returns exactly the
\* parts of that band (expired below 0 days, urgent 0 to 90, warning 91 to
\* 180, normal above, no_inspection without a date), and each part is kept
\* by exactly one of the five filters.
C20_BandsPartition ==
    (lastCall.kind = "get_spare_parts"
       /\ lastCall.filter \in DueFilters \cup {"no_inspection"})
    => \A p \in spare_parts :
          /\ p.id \in lastCall.selected
             <=> lastCall.filter =
                   (IF p.next_inspection_date = NoDate THEN "no_inspection"
                    ELSE Band(toordinal(p.next_inspection_date)
                              - toordinal(lastCall.today)))
          /\ Cardinality({f \in DueFilters \cup {"no_inspection"} :
                            InspectionFilter(p, f, lastCall.today)}) = 1

\* The urgent filter returned a part due in exactly 90 days and left out a
\* part without a date.
C20_Witness ==
    /\ lastCall.kind = "get_spare_parts"
    /\ lastCall.filter = "urgent"
    /\ \E p \in spare_parts :
          /\ p.id \in lastCall.selected
          /\ toordinal(p.next_inspection_date) - toordinal(lastCall.today) = 90
    /\ \E p \in spare_parts :
          p.next_inspection_date = NoDate /\ p.id \notin lastCall.selected

(***************************************************************************)
(* Claims about the inspection progress (checked under SpecProgress)       *)
(***************************************************************************)
\* The part the last get_spare_part answered for.
Shown == PartById(spare_parts, lastCall.part_id)

ShownAPart == lastCall.kind = "get_spare_part" /\ lastCall.status = "ok"

\* C21: for a part with last_inspection_date before next_inspection_date the
\* progress is 0 on the day of next_inspection_date and 100 on the day of
\* last_inspection_date.
C21_ProgressAtTheEnds ==
    (/\ ShownAPart
     /\ Shown.last_inspection_date # NoDate
     /\ Shown.next_inspection_date # NoDate
     /\ toordinal(Shown.last_inspection_date)
          < toordinal(Shown.next_inspection_date))
    => /\ lastCall.today = Shown.next_inspection_date => lastCall.progress = 0
       /\ lastCall.today = Shown.last_inspection_date
            => lastCall.progress = 10000

\* A part inspected on 2024-01-01 and due on 2024-01-04 was shown on the
\* day of its last inspection.
C21_Witness ==
    /\ ShownAPart
    /\ Shown.last_inspection_date = [y |-> 2024, m |-> 1, d |-> 1]
    /\ Shown.next_inspection_date = [y |-> 2024, m |-> 1, d |-> 4]
    /\ lastCall.today = Shown.last_inspection_date
    /\ lastCall.progress = 10000

\* C22: whatever dates the part has, the progress is between 0 and 100, and
\* it is 0 for a part without next_inspection_date and on every day after
\* next_inspection_date.
C22_ProgressInRange ==
    ShownAPart
    => /\ lastCall.progress \in 0..10000
       /\ Shown.next_inspection_date = NoDate => lastCall.progress = 0
       /\ (/\ Shown.next_inspection_date # NoDate
           /\ toordinal(lastCall.today) > toordinal(Shown.next_inspection_date))
          => lastCall.progress = 0

\* A part whose last inspection is later than its next one was shown after
\* the next one.
C22_Witness ==
    /\ ShownAPart
    /\ Shown.last_inspection_date # NoDate
    /\ Shown.next_inspection_date # NoDate
    /\ toordinal(Shown.last_inspection_date)
         > toordinal(Shown.next_inspection_date)
    /\ toordinal(lastCall.today) > toordinal(Shown.next_inspection_date)
    /\ lastCall.progress = 0

(***************************************************************************)
(* The version log (checked under SpecMig)                                 *)
(***************************************************************************)
\* The largest version in a log, 0 for the empty log.
RECURSIVE MaxVersion(_)
MaxVersion(log) ==
    IF log = <<>> THEN 0
    ELSE LET rest == MaxVersion(SubSeq(log, 1, Len(log) - 1))
             last == log[Len(log)]
         IN  IF last > rest THEN last ELSE rest

StrictlyIncreasing(log) == \A i \in 1..(Len(log) - 1) : log[i] < log[i + 1]

IsPrefix(a, b) == Len(a) <= Len(b) /\ SubSeq(b, 1, Len(a)) = a

\* C23: the version log only grows at its end, its versions are strictly
\* increasing in insertion order, and get_db_version reports the largest
\* version in it (0 for an empty log or a database without the table).
C23_VersionLogMonotonic ==
    /\ [](/\ StrictlyIncreasing(db.versionLog)
          /\ get_db_version(db) = MaxVersion(db.versionLog))
    /\ [][IsPrefix(db.versionLog, db.versionLog')]_vars

\* A run found a database at version 0 and appended version 1, which is what
\* get_db_version reports now.
C23_Witness ==
    /\ runs >= 1
    /\ lastRun.startVersion = 0
    /\ db.versionLog = Append(lastRun.startDb.versionLog, 1)
    /\ get_db_version(db) = 1

(***************************************************************************)
(* Claims about the records kept with a part                               *)
(***************************************************************************)
\* C24: every maintenance record stored belongs to a part that is stored,
\* and no create answers success for a part that is not.
C24_RecordsHaveParent ==
    /\ \A r \in maintenance_records : HasPart(spare_parts, r.spare_part_id)
    /\ (lastCall.kind = "create_maintenance_record" /\ lastCall.status = "ok")
       => HasPart(spare_parts, lastCall.data["spare_part_id"].n)

\* C25: the inspection_validity_period of every maintenance record stored
\* is absent or an integer that is not negative.
C25_ValidityNotNegative ==
    \A r \in maintenance_records :
        \/ r.inspection_validity_period = JNull
        \/ /\ r.inspection_validity_period.type = "number"
           /\ r.inspection_validity_period.n >= 0

\* A part has its two inspection dates in order, or lacks one of them.
DatesInOrder(part) ==
    \/ part.last_inspection_date = NoDate
    \/ part.next_inspection_date = NoDate
    \/ toordinal(part.next_inspection_date)
         >= toordinal(part.last_inspection_date)

\* The body has no validity period or one that is not negative.
ValidityAbsentOrNatural(data) ==
    LET v == Get(data, "inspection_validity_period")
    IN  v = JNull \/ (v.type = "number" /\ v.n >= 0)

\* C30: a maintenance record created or updated with no or a non-negative
\* validity period leaves the inspection dates of a part in order when they
\* were in order before.
C30_SyncKeepsDatesInOrder ==
    [][(/\ lastCall'.kind \in {"create_maintenance_record",
                               "update_maintenance_record"}
        /\ lastCall'.status = "ok"
        /\ ValidityAbsentOrNatural(lastCall'.data))
       => \A p \in spare_parts : \A q \in spare_parts' :
             (q.id = p.id /\ DatesInOrder(p)) => DatesInOrder(q)
      ]_vars

(***************************************************************************)
(* Claims about the scheduled run and the scheduler                        *)
(***************************************************************************)
\* C26: with keep_days >= 1 the artifacts the snapshot jobs of a scheduled
\* run wrote are still in the backup directory after the sweep of that run.
C26_FreshArtifactsSurvive ==
    (lastOp.kind = "scheduled_run" /\ Cfg.keep_days >= 1)
    => \A r \in lastOp.results : Exists(fs, Append(BackupDir, r.filename))

\* The schedulers that run with an 'auto_backup' job.
ActiveJobs(scheds) == {x \in Running(scheds) : x.jobs # {}}

\* C27: while the process serves, an 'auto_backup' job is active exactly
\* when the persisted auto_backup_enabled is true, and it fires at the
\* persisted backup_time.
C27_JobMatchesConfig ==
    phase = "serving"
    => /\ ActiveJobs(schedulers) # {} <=> Cfg.auto_backup_enabled
       /\ \A x \in ActiveJobs(schedulers) : x.jobs = {JobFor(Cfg.backup_time)}

\* C28: an update that answers with a failure leaves the persisted
\* configuration and the running schedulers with their jobs as they were.
C28_FailedUpdateChangesNothing ==
    [][(lastOp'.kind = "update_config" /\ ~lastUpdate'.success)
       => /\ load_backup_config(configFile') = load_backup_config(configFile)
          /\ Running(schedulers') = Running(schedulers)
      ]_vars

\* C29: once the two threads have left update_backup_config, at most one
\* scheduler runs with an 'auto_backup' job, it is the one the handle
\* names, and its job fires at the persisted backup_time.
C29_OneSchedulerAfterConcurrentUpdates ==
    (\A t \in Threads : threads[t].pc = "idle")
    => /\ Cardinality(ActiveJobs(schedulers)) <= 1
       /\ \A x \in ActiveJobs(schedulers) :
             /\ x.id = backup_scheduler
             /\ x.jobs = {JobFor(Cfg.backup_time)}

====
